---- MODULE Spec2Model ----
(***************************************************************************)
(* A state-machine model of the falling-block engine of src/src/game.rs.   *)
(* The engine aggregate (struct Game) is the record built by Self; every   *)
(* method of impl Game is an operator from an engine record to an engine   *)
(* record (with its return value where it has one), and every public       *)
(* method is one action, taken by any caller of the library; the engine    *)
(* that src/src/main.rs defines for the binary is modelled apart, by the   *)
(* operators whose names begin with main_ and the actions of NextMain.     *)
(***************************************************************************)
EXTENDS Integers, Sequences, FiniteSets, TLC

VARIABLES
  grid,            \* Game.grid: GRID_HEIGHT rows (row y is grid[y+1]) of GRID_WIDTH cells
  current_piece,   \* Game.current_piece
  preview_queue,   \* Game.preview_queue
  score,           \* Game.score
  lines_cleared,   \* Game.lines_cleared
  level,           \* Game.level
  high_score,      \* Game.high_score
  state,           \* Game.state
  piece_provider,  \* Game.piece_provider (a SequencePieceProvider: pieces, index)
  events,          \* Game.events
  hs_file,         \* content of highscore.txt (-1: missing or unparseable)
  save_calls,      \* number of save_high_score calls made so far
  load_calls,      \* number of load_high_score calls made so far
  last,            \* the last call made on the engine: its arguments, the engine before it, its result
  twin,            \* a second engine handed the same calls: what its last call returned, what its file held then
  fuel             \* calls a caller may still make (a hard_drop while Playing is free)

vars == <<grid, current_piece, preview_queue, score, lines_cleared, level,
          high_score, state, piece_provider, events, hs_file, save_calls,
          load_calls, last, twin, fuel>>

----------------------------------------------------------------------------
(* Configuration: game.rs lines 8-22 *)

GRID_WIDTH == 10
GRID_HEIGHT == 20
PREVIEW_COUNT == 4
BASE_TICK_MS == 800
MIN_TICK_MS == 100
SPEED_INCREASE_PER_LEVEL == 50
LINES_PER_LEVEL == 10
SCORE_SINGLE == 100
SCORE_DOUBLE == 300
SCORE_TRIPLE == 500
SCORE_TETRIS == 800

(* Bounds of the exploration *)

MaxFuel == 2        \* calls, other than hard_drop while Playing, made in one run
MaxGridFuel == 1    \* calls made on an engine built by with_grid around a placed piece
MaxApiLines == 11   \* largest argument handed to add_score when it is called directly
MaxFullRows == 3    \* complete rows of a board handed to with_grid before clear_lines
MaxGapRows == 4     \* rows filled but for one column under the piece about to drop
MaxLevel == 20      \* highest level at which the tick duration is asked for
MaxListLen == 3     \* longest list a sequence provider is built from
MaxDraws == 4       \* next_piece calls made on the provider after construction
MaxMainFuel == 1    \* calls, other than hard_drop while Playing, made on the binary's engine
MaxTicks == 21      \* ticks in a row handed to an engine with a piece in the air

----------------------------------------------------------------------------
(* Types *)

TetrominoType == {"I", "O", "T", "S", "Z", "J", "L"}

Empty == "Empty"
Filled(t) == t

Playing == "Playing"
Paused == "Paused"
GameOver == "GameOver"

EvPieceMoved == <<"PieceMoved">>
EvPieceRotated == <<"PieceRotated">>
EvPieceLocked == <<"PieceLocked">>
EvLinesCleared(n) == <<"LinesCleared", n>>
EvLevelUp(n) == <<"LevelUp", n>>
EvPaused == <<"Paused">>
EvUnpaused == <<"Unpaused">>
EvGameRestarted == <<"GameRestarted">>
EvGameOver == <<"GameOver">>

ShapeTable ==
  [t \in TetrominoType |->
  CASE t = "I" -> << << <<0,0>>, <<1,0>>, <<2,0>>, <<3,0>> >>,
                     << <<0,0>>, <<0,1>>, <<0,2>>, <<0,3>> >>,
                     << <<0,0>>, <<1,0>>, <<2,0>>, <<3,0>> >>,
                     << <<0,0>>, <<0,1>>, <<0,2>>, <<0,3>> >> >>
    [] t = "O" -> << << <<0,0>>, <<1,0>>, <<0,1>>, <<1,1>> >>,
                     << <<0,0>>, <<1,0>>, <<0,1>>, <<1,1>> >>,
                     << <<0,0>>, <<1,0>>, <<0,1>>, <<1,1>> >>,
                     << <<0,0>>, <<1,0>>, <<0,1>>, <<1,1>> >> >>
    [] t = "T" -> << << <<1,0>>, <<0,1>>, <<1,1>>, <<2,1>> >>,
                     << <<0,0>>, <<0,1>>, <<1,1>>, <<0,2>> >>,
                     << <<0,0>>, <<1,0>>, <<2,0>>, <<1,1>> >>,
                     << <<1,0>>, <<0,1>>, <<1,1>>, <<1,2>> >> >>
    [] t = "S" -> << << <<1,0>>, <<2,0>>, <<0,1>>, <<1,1>> >>,
                     << <<0,0>>, <<0,1>>, <<1,1>>, <<1,2>> >>,
                     << <<1,0>>, <<2,0>>, <<0,1>>, <<1,1>> >>,
                     << <<0,0>>, <<0,1>>, <<1,1>>, <<1,2>> >> >>
    [] t = "Z" -> << << <<0,0>>, <<1,0>>, <<1,1>>, <<2,1>> >>,
                     << <<1,0>>, <<0,1>>, <<1,1>>, <<0,2>> >>,
                     << <<0,0>>, <<1,0>>, <<1,1>>, <<2,1>> >>,
                     << <<1,0>>, <<0,1>>, <<1,1>>, <<0,2>> >> >>
    [] t = "J" -> << << <<0,0>>, <<0,1>>, <<1,1>>, <<2,1>> >>,
                     << <<0,0>>, <<1,0>>, <<0,1>>, <<0,2>> >>,
                     << <<0,0>>, <<1,0>>, <<2,0>>, <<2,1>> >>,
                     << <<1,0>>, <<1,1>>, <<0,2>>, <<1,2>> >> >>
    [] t = "L" -> << << <<2,0>>, <<0,1>>, <<1,1>>, <<2,1>> >>,
                     << <<0,0>>, <<0,1>>, <<0,2>>, <<1,2>> >>,
                     << <<0,0>>, <<1,0>>, <<2,0>>, <<0,1>> >>,
                     << <<0,0>>, <<1,0>>, <<1,1>>, <<1,2>> >> >> ]

(* TetrominoType::shapes *)
shapes(t) == ShapeTable[t]

(* Tetromino::new: the spawn anchor, rotation 0 *)
Tetromino_new(t) ==
  [tetromino_type |-> t,
   position |-> [x |-> (GRID_WIDTH \div 2) - 1, y |-> 0],
   rotation |-> 0]

(* Tetromino::new_at *)
Tetromino_new_at(t, x, y) ==
  [tetromino_type |-> t, position |-> [x |-> x, y |-> y], rotation |-> 0]

(* Tetromino::blocks: the 4 cells, in the table's order *)
blocks(piece) ==
  LET all == shapes(piece.tetromino_type)
      shape == all[(piece.rotation % Len(all)) + 1]
  IN  [i \in 1..Len(shape) |->
         [x |-> piece.position.x + shape[i][1],
          y |-> piece.position.y + shape[i][2]]]

(* Tetromino::rotated *)
rotated(piece, clockwise) ==
  LET n == Len(shapes(piece.tetromino_type))
  IN  [piece EXCEPT !.rotation =
         IF clockwise THEN (piece.rotation + 1) % n
                      ELSE (piece.rotation + n - 1) % n]

(* moved with the two offsets exchanged *)
moved_swapped(piece, dx, dy) ==
  [piece EXCEPT !.position = [x |-> piece.position.x + dy,
                              y |-> piece.position.y + dx]]

(* Tetromino::moved *)
moved(piece, dx, dy) ==
  [piece EXCEPT !.position = [x |-> piece.position.x + dx,
                              y |-> piece.position.y + dy]]

----------------------------------------------------------------------------
(* Piece provider: SequencePieceProvider *)

SequencePieceProvider_new(pieces) == [pieces |-> pieces, index |-> 0]

(* SequencePieceProvider::next_piece: the kind returned and the provider after it *)
next_piece(provider) ==
  [piece |-> provider.pieces[(provider.index % Len(provider.pieces)) + 1],
   provider |-> [provider EXCEPT !.index = provider.index + 1]]

(* n successive next_piece calls: the kinds drawn, in order, and the provider after them *)
RECURSIVE draw(_, _)
draw(provider, n) ==
  IF n = 0 THEN [drawn |-> <<>>, provider |-> provider]
  ELSE LET d == next_piece(provider)
           r == draw(d.provider, n - 1)
       IN  [drawn |-> <<d.piece>> \o r.drawn, provider |-> r.provider]

----------------------------------------------------------------------------
(* High-score file *)

(* load_high_score: 0 when the file is missing or does not parse *)
load_high_score(file) == IF file < 0 THEN 0 ELSE file

(* save_high_score: the file after the write *)
save_high_score(hs) == hs

----------------------------------------------------------------------------
(* The engine record and the methods of impl Game *)

EmptyRow == [x \in 1..GRID_WIDTH |-> Empty]
EmptyGrid == [y \in 1..GRID_HEIGHT |-> EmptyRow]

Self ==
  [grid |-> grid, current_piece |-> current_piece, preview_queue |-> preview_queue,
   score |-> score, lines_cleared |-> lines_cleared, level |-> level,
   high_score |-> high_score, state |-> state, piece_provider |-> piece_provider,
   events |-> events, hs_file |-> hs_file, save_calls |-> save_calls,
   load_calls |-> load_calls]

(* with_provider drawing the current piece before the preview queue *)
with_provider_current_first(provider, file) ==
  LET c == next_piece(provider)
      q == draw(c.provider, PREVIEW_COUNT)
  IN  [grid |-> EmptyGrid,
       current_piece |-> Tetromino_new(c.piece),
       preview_queue |-> q.drawn,
       score |-> 0, lines_cleared |-> 0, level |-> 1,
       high_score |-> load_high_score(file),
       state |-> Playing,
       piece_provider |-> q.provider,
       events |-> <<>>,
       hs_file |-> file, save_calls |-> 0, load_calls |-> 1]

(* Game::with_provider *)
with_provider(provider, file) ==
  LET q == draw(provider, PREVIEW_COUNT)
      c == next_piece(q.provider)
  IN  [grid |-> EmptyGrid,
       current_piece |-> Tetromino_new(c.piece),
       preview_queue |-> q.drawn,
       score |-> 0, lines_cleared |-> 0, level |-> 1,
       high_score |-> load_high_score(file),
       state |-> Playing,
       piece_provider |-> c.provider,
       events |-> <<>>,
       hs_file |-> file, save_calls |-> 0, load_calls |-> 1]

(* Game::with_grid; its queue and provider are random: the kinds drawn are `queue`
   and the provider is the sequence provider over `pieces` *)
with_grid(g, piece, queue, pieces, file) ==
  [grid |-> g,
   current_piece |-> piece,
   preview_queue |-> queue,
   score |-> 0, lines_cleared |-> 0, level |-> 1,
   high_score |-> load_high_score(file),
   state |-> Playing,
   piece_provider |-> SequencePieceProvider_new(pieces),
   events |-> <<>>,
   hs_file |-> file, save_calls |-> 0, load_calls |-> 1]

(* Game::is_valid_position *)
is_valid_position(self, piece) ==
  LET bs == blocks(piece)
  IN  \A i \in 1..Len(bs) :
        /\ ~(bs[i].x < 0 \/ bs[i].x >= GRID_WIDTH)
        /\ ~(bs[i].y < 0 \/ bs[i].y >= GRID_HEIGHT)
        /\ self.grid[bs[i].y + 1][bs[i].x + 1] = Empty

(* the cells <<y, x>> of self.grid read by is_valid_position on blocks i..4: a
   block is looked up once both bounds checks let it pass, and the loop
   returns at the first block that fails *)
RECURSIVE is_valid_position_reads(_, _, _)
is_valid_position_reads(self, bs, i) ==
  IF i > Len(bs) THEN {}
  ELSE IF bs[i].x < 0 \/ bs[i].x >= GRID_WIDTH THEN {}
  ELSE IF bs[i].y < 0 \/ bs[i].y >= GRID_HEIGHT THEN {}
  ELSE {<<bs[i].y, bs[i].x>>} \cup
       (IF self.grid[bs[i].y + 1][bs[i].x + 1] # Empty THEN {}
        ELSE is_valid_position_reads(self, bs, i + 1))

(* the cells <<y, x>> of self.grid written by lock_piece: the row is checked,
   the column is not *)
lock_piece_writes(self) ==
  LET bs == blocks(self.current_piece)
  IN  { <<bs[i].y, bs[i].x>> :
          i \in { j \in 1..Len(bs) : bs[j].y >= 0 /\ bs[j].y < GRID_HEIGHT } }

(* the loop of Game::lock_piece over blocks i..4 *)
RECURSIVE lock_blocks(_, _, _, _)
lock_blocks(g, bs, t, i) ==
  IF i > Len(bs) THEN g
  ELSE IF bs[i].y >= 0 /\ bs[i].y < GRID_HEIGHT
       THEN lock_blocks([g EXCEPT ![bs[i].y + 1][bs[i].x + 1] = Filled(t)], bs, t, i + 1)
       ELSE lock_blocks(g, bs, t, i + 1)

(* lock_piece that starts the buffer afresh *)
lock_piece_fresh_events(self) ==
  [self EXCEPT
     !.grid = lock_blocks(self.grid, blocks(self.current_piece),
                          self.current_piece.tetromino_type, 1),
     !.events = <<EvPieceLocked>>]

(* Game::lock_piece *)
lock_piece(self) ==
  [self EXCEPT
     !.grid = lock_blocks(self.grid, blocks(self.current_piece),
                          self.current_piece.tetromino_type, 1),
     !.events = Append(self.events, EvPieceLocked)]

(* blanking row y where it is, nothing above it moving down *)
remove_and_insert_in_place(g, y) ==
  [g EXCEPT ![y + 1] = EmptyRow]

(* a row removal followed by two insertions at the top *)
remove_and_insert_twice(g, y) ==
  <<EmptyRow, EmptyRow>> \o SubSeq(g, 1, y) \o SubSeq(g, y + 2, Len(g))

(* Vec::remove(y) then Vec::insert(0, empty row); y is the 0-based row *)
remove_and_insert(g, y) ==
  <<EmptyRow>> \o SubSeq(g, 1, y) \o SubSeq(g, y + 2, Len(g))

(* Game::is_row_complete, on a grid *)
row_complete(g, y) == \A x \in 1..GRID_WIDTH : g[y + 1][x] # Empty

(* a scan that stops at the first complete row it removes *)
clear_loop_first_only(g, y, cleared_count) ==
  LET full == { r \in y..(GRID_HEIGHT - 1) : row_complete(g, r) }
  IN  IF full = {}
      THEN [grid |-> g, cleared_count |-> cleared_count]
      ELSE [grid |-> remove_and_insert(g, CHOOSE r \in full : \A q \in full : r <= q),
            cleared_count |-> cleared_count + 1]

(* the while loop of Game::clear_lines from row y on *)
RECURSIVE clear_loop(_, _, _)
clear_loop(g, y, cleared_count) ==
  IF y < GRID_HEIGHT
  THEN IF row_complete(g, y)
       THEN clear_loop(remove_and_insert(g, y), y, cleared_count + 1)
       ELSE clear_loop(g, y + 1, cleared_count)
  ELSE [grid |-> g, cleared_count |-> cleared_count]

(* clear_lines recording LinesCleared whatever the count *)
clear_lines_always_event(self) ==
  LET r == clear_loop(self.grid, 0, 0)
  IN  [self |-> [self EXCEPT
                   !.grid = r.grid,
                   !.events = Append(self.events, EvLinesCleared(r.cleared_count))],
       ret |-> r.cleared_count]

(* Game::clear_lines: the engine after it and the count returned *)
clear_lines(self) ==
  LET r == clear_loop(self.grid, 0, 0)
  IN  [self |-> [self EXCEPT
                   !.grid = r.grid,
                   !.events = IF r.cleared_count > 0
                              THEN Append(self.events, EvLinesCleared(r.cleared_count))
                              ELSE self.events],
       ret |-> r.cleared_count]

base_score(lines) ==
  CASE lines = 1 -> SCORE_SINGLE
    [] lines = 2 -> SCORE_DOUBLE
    [] lines = 3 -> SCORE_TRIPLE
    [] lines = 4 -> SCORE_TETRIS
    [] OTHER -> 0

(* add_score announcing every level it passes *)
add_score_each_level(self, lines) ==
  LET new_score == self.score + (base_score(lines) * self.level)
      new_lines == self.lines_cleared + lines
      new_level == (new_lines \div LINES_PER_LEVEL) + 1
  IN  [self EXCEPT
         !.score = new_score,
         !.lines_cleared = new_lines,
         !.level = IF new_level > self.level THEN new_level ELSE self.level,
         !.events = IF new_level > self.level
                    THEN self.events \o
                         [i \in 1..(new_level - self.level) |-> EvLevelUp(self.level + i)]
                    ELSE self.events]

(* add_score multiplying by the level after the level-up *)
add_score_new_level(self, lines) ==
  LET new_lines == self.lines_cleared + lines
      new_level == (new_lines \div LINES_PER_LEVEL) + 1
      lvl == IF new_level > self.level THEN new_level ELSE self.level
  IN  [self EXCEPT
         !.score = self.score + (base_score(lines) * lvl),
         !.lines_cleared = new_lines,
         !.level = lvl,
         !.events = IF new_level > self.level
                    THEN Append(self.events, EvLevelUp(new_level))
                    ELSE self.events]

(* Game::add_score.  score, lines_cleared and level are u32; every value the
   bounds below let them take is far under 2^32, where u32 and integer
   arithmetic agree. *)
add_score(self, lines) ==
  LET new_score == self.score + (base_score(lines) * self.level)
      new_lines == self.lines_cleared + lines
      new_level == (new_lines \div LINES_PER_LEVEL) + 1
  IN  [self EXCEPT
         !.score = new_score,
         !.lines_cleared = new_lines,
         !.level = IF new_level > self.level THEN new_level ELSE self.level,
         !.events = IF new_level > self.level
                    THEN Append(self.events, EvLevelUp(new_level))
                    ELSE self.events]

(* spawn_next_piece without the validity check of the new piece *)
spawn_next_piece_unchecked(self) ==
  LET d == next_piece(self.piece_provider)
  IN  [self EXCEPT
         !.preview_queue = Append(Tail(self.preview_queue), d.piece),
         !.piece_provider = d.provider,
         !.current_piece = Tetromino_new(Head(self.preview_queue))]

(* spawn_next_piece without the push_back that refills the queue *)
spawn_next_piece_no_refill(self) ==
  LET next_type == IF Len(self.preview_queue) > 0
                   THEN Head(self.preview_queue)
                   ELSE CHOOSE t \in TetrominoType : TRUE
      rest == IF Len(self.preview_queue) > 0 THEN Tail(self.preview_queue) ELSE <<>>
      s1 == [self EXCEPT !.preview_queue = rest,
                         !.current_piece = Tetromino_new(next_type)]
  IN  IF ~is_valid_position(s1, s1.current_piece)
      THEN LET s2 == [s1 EXCEPT !.state = GameOver,
                                !.events = Append(s1.events, EvGameOver)]
           IN  IF s2.score > s2.high_score
               THEN [s2 EXCEPT !.high_score = s2.score,
                               !.hs_file = save_high_score(s2.score),
                               !.save_calls = s2.save_calls + 1]
               ELSE s2
      ELSE s1

(* spawn_next_piece taking the new piece from the provider, not from the queue *)
spawn_next_piece_from_provider(self) ==
  LET d == next_piece(self.piece_provider)
      s1 == [self EXCEPT
               !.preview_queue = Append(Tail(self.preview_queue), d.piece),
               !.piece_provider = d.provider,
               !.current_piece = Tetromino_new(d.piece)]
  IN  IF ~is_valid_position(s1, s1.current_piece)
      THEN LET s2 == [s1 EXCEPT !.state = GameOver,
                                !.events = Append(s1.events, EvGameOver)]
           IN  IF s2.score > s2.high_score
               THEN [s2 EXCEPT !.high_score = s2.score,
                               !.hs_file = save_high_score(s2.score),
                               !.save_calls = s2.save_calls + 1]
               ELSE s2
      ELSE s1

(* spawn_next_piece ending the game without recording GameOver *)
spawn_next_piece_silent(self) ==
  LET d == next_piece(self.piece_provider)
      s1 == [self EXCEPT
               !.preview_queue = Append(Tail(self.preview_queue), d.piece),
               !.piece_provider = d.provider,
               !.current_piece = Tetromino_new(Head(self.preview_queue))]
  IN  IF ~is_valid_position(s1, s1.current_piece)
      THEN LET s2 == [s1 EXCEPT !.state = GameOver]
           IN  IF s2.score > s2.high_score
               THEN [s2 EXCEPT !.high_score = s2.score,
                               !.hs_file = save_high_score(s2.score),
                               !.save_calls = s2.save_calls + 1]
               ELSE s2
      ELSE s1

(* spawn_next_piece saving a score that only equals the high score *)
spawn_next_piece_save_equal(self) ==
  LET d == next_piece(self.piece_provider)
      s1 == [self EXCEPT
               !.preview_queue = Append(Tail(self.preview_queue), d.piece),
               !.piece_provider = d.provider,
               !.current_piece = Tetromino_new(Head(self.preview_queue))]
  IN  IF ~is_valid_position(s1, s1.current_piece)
      THEN LET s2 == [s1 EXCEPT !.state = GameOver,
                                !.events = Append(s1.events, EvGameOver)]
           IN  IF s2.score >= s2.high_score
               THEN [s2 EXCEPT !.high_score = s2.score,
                               !.hs_file = save_high_score(s2.score),
                               !.save_calls = s2.save_calls + 1]
               ELSE s2
      ELSE s1

(* spawn_next_piece zeroing the score once the game is over *)
spawn_next_piece_reset_score(self) ==
  LET d == next_piece(self.piece_provider)
      s1 == [self EXCEPT
               !.preview_queue = Append(Tail(self.preview_queue), d.piece),
               !.piece_provider = d.provider,
               !.current_piece = Tetromino_new(Head(self.preview_queue))]
  IN  IF ~is_valid_position(s1, s1.current_piece)
      THEN LET s2 == [s1 EXCEPT !.state = GameOver,
                                !.events = Append(s1.events, EvGameOver)]
           IN  IF s2.score > s2.high_score
               THEN [s2 EXCEPT !.high_score = s2.score,
                               !.hs_file = save_high_score(s2.score),
                               !.save_calls = s2.save_calls + 1,
                               !.score = 0]
               ELSE [s2 EXCEPT !.score = 0]
      ELSE s1

(* spawn_next_piece comparing the score with the high score the file holds
   at that moment, not with the one loaded at construction *)
spawn_next_piece_reload(self) ==
  LET next_type == IF Len(self.preview_queue) > 0
                   THEN Head(self.preview_queue)
                   ELSE CHOOSE t \in TetrominoType : TRUE
      rest == IF Len(self.preview_queue) > 0 THEN Tail(self.preview_queue) ELSE <<>>
      d == next_piece(self.piece_provider)
      s1 == [self EXCEPT
               !.preview_queue = Append(rest, d.piece),
               !.piece_provider = d.provider,
               !.current_piece = Tetromino_new(next_type)]
  IN  IF ~is_valid_position(s1, s1.current_piece)
      THEN LET s2 == [s1 EXCEPT !.state = GameOver,
                                !.events = Append(s1.events, EvGameOver)]
           IN  IF s2.score > load_high_score(s2.hs_file)
               THEN [s2 EXCEPT !.high_score = s2.score,
                               !.hs_file = save_high_score(s2.score),
                               !.save_calls = s2.save_calls + 1]
               ELSE s2
      ELSE s1

(* Game::spawn_next_piece.  pop_front's fallback (a random kind) is taken only for
   an empty queue, which no operation of the engine produces. *)
spawn_next_piece(self) ==
  LET next_type == IF Len(self.preview_queue) > 0
                   THEN Head(self.preview_queue)
                   ELSE CHOOSE t \in TetrominoType : TRUE
      rest == IF Len(self.preview_queue) > 0 THEN Tail(self.preview_queue) ELSE <<>>
      d == next_piece(self.piece_provider)
      s1 == [self EXCEPT
               !.preview_queue = Append(rest, d.piece),
               !.piece_provider = d.provider,
               !.current_piece = Tetromino_new(next_type)]
  IN  IF ~is_valid_position(s1, s1.current_piece)
      THEN LET s2 == [s1 EXCEPT !.state = GameOver,
                                !.events = Append(s1.events, EvGameOver)]
           IN  IF s2.score > s2.high_score
               THEN [s2 EXCEPT !.high_score = s2.score,
                               !.hs_file = save_high_score(s2.score),
                               !.save_calls = s2.save_calls + 1]
               ELSE s2
      ELSE s1

(* Game::move_piece: the engine after it and the bool returned *)
move_piece(self, dx, dy) ==
  IF self.state # Playing THEN [self |-> self, ret |-> FALSE]
  ELSE LET m == moved(self.current_piece, dx, dy)
       IN  IF is_valid_position(self, m)
           THEN [self |-> [self EXCEPT !.current_piece = m,
                                       !.events = Append(self.events, EvPieceMoved)],
                 ret |-> TRUE]
           ELSE [self |-> self, ret |-> FALSE]

(* the wall kicks of Game::rotate_piece, in the order they are tried *)
(* the kicks with the first two in the other order *)
kicks_swapped == << <<-1, 0>>, <<1, 0>>, <<0, -1>>, <<2, 0>>, <<-2, 0>> >>

(* Game::rotate_piece: the wall kicks, in the order they are tried *)
kicks == << <<1, 0>>, <<-1, 0>>, <<0, -1>>, <<2, 0>>, <<-2, 0>> >>

(* the for loop leaving the rotated piece in place when every kick failed *)
RECURSIVE try_kicks_commit(_, _, _)
try_kicks_commit(self, rot, i) ==
  IF i > Len(kicks) THEN [self |-> [self EXCEPT !.current_piece = rot], ret |-> FALSE]
  ELSE LET kicked == [rot EXCEPT !.position = [x |-> rot.position.x + kicks[i][1],
                                               y |-> rot.position.y + kicks[i][2]]]
       IN  IF is_valid_position(self, kicked)
           THEN [self |-> [self EXCEPT !.current_piece = kicked,
                                       !.events = Append(self.events, EvPieceRotated)],
                 ret |-> TRUE]
           ELSE try_kicks_commit(self, rot, i + 1)

(* the for loop of Game::rotate_piece over kicks i..5 *)
RECURSIVE try_kicks(_, _, _)
try_kicks(self, rot, i) ==
  IF i > Len(kicks) THEN [self |-> self, ret |-> FALSE]
  ELSE LET kicked == [rot EXCEPT !.position = [x |-> rot.position.x + kicks[i][1],
                                               y |-> rot.position.y + kicks[i][2]]]
       IN  IF is_valid_position(self, kicked)
           THEN [self |-> [self EXCEPT !.current_piece = kicked,
                                       !.events = Append(self.events, EvPieceRotated)],
                 ret |-> TRUE]
           ELSE try_kicks(self, rot, i + 1)

(* rotate_piece committing the turned piece without testing it *)
rotate_piece_unchecked(self, clockwise) ==
  IF self.state # Playing THEN [self |-> self, ret |-> FALSE]
  ELSE [self |-> [self EXCEPT !.current_piece = rotated(self.current_piece, clockwise),
                              !.events = Append(self.events, EvPieceRotated)],
        ret |-> TRUE]

(* Game::rotate_piece: the engine after it and the bool returned *)
rotate_piece(self, clockwise) ==
  IF self.state # Playing THEN [self |-> self, ret |-> FALSE]
  ELSE LET rot == rotated(self.current_piece, clockwise)
       IN  IF is_valid_position(self, rot)
           THEN [self |-> [self EXCEPT !.current_piece = rot,
                                       !.events = Append(self.events, EvPieceRotated)],
                 ret |-> TRUE]
           ELSE try_kicks(self, rot, 1)

(* lock_and_spawn scoring only when more than one row was cleared *)
lock_and_spawn_threshold(self) ==
  LET c == clear_lines(lock_piece(self))
  IN  spawn_next_piece(IF c.ret > 1 THEN add_score(c.self, c.ret) ELSE c.self)

(* Game::lock_and_spawn *)
lock_and_spawn(self) ==
  LET c == clear_lines(lock_piece(self))
  IN  spawn_next_piece(IF c.ret > 0 THEN add_score(c.self, c.ret) ELSE c.self)

(* a drop that puts the piece at the lowest place where it fits, whatever lies
   in between *)
drop_loop_lowest(self) ==
  LET fits == { d \in 0..GRID_HEIGHT :
                  is_valid_position(self, moved(self.current_piece, 0, d)) }
      deepest == CHOOSE d \in fits : \A e \in fits : e <= d
  IN  [self EXCEPT !.current_piece = moved(self.current_piece, 0, deepest)]

(* the loop `while self.move_piece(0, 1) {}` of Game::hard_drop *)
RECURSIVE drop_loop(_)
drop_loop(self) ==
  LET m == move_piece(self, 0, 1)
  IN  IF m.ret THEN drop_loop(m.self) ELSE m.self

(* Vec::retain(|e| *e != PieceMoved) *)
retain_not_moved(evs) == SelectSeq(evs, LAMBDA e : e # EvPieceMoved)

(* Game::hard_drop *)
hard_drop(self) ==
  IF self.state # Playing THEN self
  ELSE LET d == drop_loop(self)
       IN  lock_and_spawn([d EXCEPT !.events = retain_not_moved(d.events)])

(* soft_drop locking the piece after the step down succeeded *)
soft_drop_inverted(self) ==
  IF self.state # Playing THEN self
  ELSE LET m == move_piece(self, 0, 1)
       IN  IF m.ret THEN lock_and_spawn(m.self) ELSE m.self

(* Game::soft_drop *)
soft_drop(self) ==
  IF self.state # Playing THEN self
  ELSE LET m == move_piece(self, 0, 1)
       IN  IF ~m.ret THEN lock_and_spawn(m.self) ELSE m.self

(* tick that moves the piece down but never locks it *)
tick_move_only(self) ==
  IF ~(self.state = Playing) THEN self
  ELSE move_piece(self, 0, 1).self

(* tick without its lifecycle guard *)
tick_unguarded(self) ==
  LET m == move_piece(self, 0, 1)
  IN  IF ~m.ret THEN lock_and_spawn(m.self) ELSE m.self

(* Game::tick *)
tick(self) ==
  IF ~(self.state = Playing) THEN self
  ELSE LET m == move_piece(self, 0, 1)
       IN  IF ~m.ret THEN lock_and_spawn(m.self) ELSE m.self

(* toggle_pause that resumes from every state but Playing *)
toggle_pause_any(self) ==
  IF self.state = Playing
  THEN [self EXCEPT !.state = Paused, !.events = Append(self.events, EvPaused)]
  ELSE [self EXCEPT !.state = Playing, !.events = Append(self.events, EvUnpaused)]

(* toggle_pause that resumes without recording Unpaused *)
toggle_pause_silent(self) ==
  CASE self.state = Playing ->
         [self EXCEPT !.state = Paused, !.events = Append(self.events, EvPaused)]
    [] self.state = Paused -> [self EXCEPT !.state = Playing]
    [] self.state = GameOver -> self

(* Game::toggle_pause *)
toggle_pause(self) ==
  CASE self.state = Playing ->
         [self EXCEPT !.state = Paused, !.events = Append(self.events, EvPaused)]
    [] self.state = Paused ->
         [self EXCEPT !.state = Playing, !.events = Append(self.events, EvUnpaused)]
    [] self.state = GameOver -> self

(* restart reading the high score from the file again *)
restart_reload(self) ==
  LET q == draw(self.piece_provider, PREVIEW_COUNT)
      c == next_piece(q.provider)
  IN  [self EXCEPT
         !.grid = EmptyGrid,
         !.score = 0, !.lines_cleared = 0, !.level = 1,
         !.high_score = load_high_score(self.hs_file),
         !.load_calls = self.load_calls + 1,
         !.state = Playing,
         !.preview_queue = q.drawn,
         !.piece_provider = c.provider,
         !.current_piece = Tetromino_new(c.piece),
         !.events = <<EvGameRestarted>>]

(* restart that also forgets the high score *)
restart_zero_high_score(self) ==
  LET q == draw(self.piece_provider, PREVIEW_COUNT)
      c == next_piece(q.provider)
  IN  [self EXCEPT
         !.grid = EmptyGrid,
         !.score = 0, !.lines_cleared = 0, !.level = 1,
         !.high_score = 0,
         !.state = Playing,
         !.preview_queue = q.drawn,
         !.piece_provider = c.provider,
         !.current_piece = Tetromino_new(c.piece),
         !.events = <<EvGameRestarted>>]

(* restart that keeps the level of the game it ends *)
restart_keep_level(self) ==
  LET q == draw(self.piece_provider, PREVIEW_COUNT)
      c == next_piece(q.provider)
  IN  [self EXCEPT
         !.grid = EmptyGrid,
         !.score = 0, !.lines_cleared = 0,
         !.state = Playing,
         !.preview_queue = q.drawn,
         !.piece_provider = c.provider,
         !.current_piece = Tetromino_new(c.piece),
         !.events = <<EvGameRestarted>>]

(* restart that starts the provider over *)
restart_reset_provider(self) ==
  LET q == draw([self.piece_provider EXCEPT !.index = 0], PREVIEW_COUNT)
      c == next_piece(q.provider)
  IN  [self EXCEPT
         !.grid = EmptyGrid,
         !.score = 0, !.lines_cleared = 0, !.level = 1,
         !.state = Playing,
         !.preview_queue = q.drawn,
         !.piece_provider = c.provider,
         !.current_piece = Tetromino_new(c.piece),
         !.events = <<EvGameRestarted>>]

(* Game::restart *)
restart(self) ==
  LET q == draw(self.piece_provider, PREVIEW_COUNT)
      c == next_piece(q.provider)
  IN  [self EXCEPT
         !.grid = EmptyGrid,
         !.score = 0, !.lines_cleared = 0, !.level = 1,
         !.state = Playing,
         !.preview_queue = q.drawn,
         !.piece_provider = c.provider,
         !.current_piece = Tetromino_new(c.piece),
         !.events = <<EvGameRestarted>>]

(* u64::saturating_sub *)
saturating_sub(a, b) == IF a >= b THEN a - b ELSE 0

(* tick_duration_ms taking the level itself as the number of speed-ups *)
tick_duration_ms_off_by_one(self) ==
  LET speed_reduction == self.level * SPEED_INCREASE_PER_LEVEL
      d == saturating_sub(BASE_TICK_MS, speed_reduction)
  IN  IF d >= MIN_TICK_MS THEN d ELSE MIN_TICK_MS

(* Game::tick_duration_ms *)
tick_duration_ms(self) ==
  LET speed_reduction == (self.level - 1) * SPEED_INCREASE_PER_LEVEL
      d == saturating_sub(BASE_TICK_MS, speed_reduction)
  IN  IF d >= MIN_TICK_MS THEN d ELSE MIN_TICK_MS

(* Game::render_grid: a copy of the grid with the blocks of the current piece
   that lie on the board written over it, block after block *)
RECURSIVE overlay(_, _, _, _)
overlay(visual_grid, bs, i, t) ==
  IF i > Len(bs) THEN visual_grid
  ELSE LET block == bs[i]
       IN  IF /\ block.y >= 0 /\ block.y < GRID_HEIGHT
              /\ block.x >= 0 /\ block.x < GRID_WIDTH
           THEN overlay([visual_grid EXCEPT ![block.y + 1][block.x + 1] = Filled(t)],
                        bs, i + 1, t)
           ELSE overlay(visual_grid, bs, i + 1, t)

(* render_grid that leaves stored Filled cells as they are *)
render_grid_skip_filled(self) ==
  LET v == overlay(self.grid, blocks(self.current_piece), 1,
                   self.current_piece.tetromino_type)
  IN  [y \in 1..Len(v) |->
         [x \in 1..Len(v[y]) |->
            IF self.grid[y][x] # Empty THEN self.grid[y][x] ELSE v[y][x]]]

(* Game::render_grid *)
render_grid(self) ==
  overlay(self.grid, blocks(self.current_piece), 1,
          self.current_piece.tetromino_type)

(* the cells <<y, x>> of the copy written by render_grid *)
render_grid_writes(self) ==
  LET bs == blocks(self.current_piece)
  IN  { <<bs[i].y, bs[i].x>> :
          i \in { j \in 1..Len(bs) : /\ bs[j].y >= 0 /\ bs[j].y < GRID_HEIGHT
                                     /\ bs[j].x >= 0 /\ bs[j].x < GRID_WIDTH } }

(* take_events that hands the buffer out and keeps it *)
take_events_keep(self) ==
  [self |-> self, ret |-> self.events]

(* Game::take_events: the engine after it and the events returned *)
take_events(self) ==
  [self |-> [self EXCEPT !.events = <<>>], ret |-> self.events]

----------------------------------------------------------------------------
(* The engine of the terminal binary: struct Game of main.rs and its methods.
   The names carry the prefix main_ where game.rs has a method of the same
   name. *)

(* main.rs TetrominoType::color *)
main_color(t) ==
  CASE t = "I" -> "Cyan"
    [] t = "O" -> "Yellow"
    [] t = "T" -> "Magenta"
    [] t = "S" -> "Green"
    [] t = "Z" -> "Red"
    [] t = "J" -> "Blue"
    [] t = "L" -> "Orange"

(* main.rs Game::new. The field rng stands for rand::thread_rng: the kinds
   that TetrominoType::random returns in this run, in order, and how many were
   taken. Tetromino and its methods are the same text in main.rs as in
   game.rs. *)
main_new(rng) ==
  LET q == draw(rng, PREVIEW_COUNT)
      c == next_piece(q.provider)
  IN  [grid |-> EmptyGrid,
       current_piece |-> Tetromino_new(c.piece),
       preview_queue |-> q.drawn,
       score |-> 0, lines_cleared |-> 0, level |-> 1,
       state |-> Playing,
       rng |-> c.provider]

(* main.rs Game::is_valid_position *)
main_is_valid_position(self, piece) ==
  LET bs == blocks(piece)
  IN  \A i \in 1..Len(bs) :
        /\ ~(bs[i].x < 0 \/ bs[i].x >= GRID_WIDTH)
        /\ ~(bs[i].y < 0 \/ bs[i].y >= GRID_HEIGHT)
        /\ self.grid[bs[i].y + 1][bs[i].x + 1] = Empty

(* main.rs Game::lock_piece, the loop over blocks i..4 *)
RECURSIVE main_lock_blocks(_, _, _, _)
main_lock_blocks(g, bs, color, i) ==
  IF i > Len(bs) THEN g
  ELSE IF bs[i].y >= 0 /\ bs[i].y < GRID_HEIGHT
       THEN main_lock_blocks([g EXCEPT ![bs[i].y + 1][bs[i].x + 1] = Filled(color)],
                             bs, color, i + 1)
       ELSE main_lock_blocks(g, bs, color, i + 1)

(* main.rs Game::lock_piece *)
main_lock_piece(self) ==
  [self EXCEPT !.grid = main_lock_blocks(self.grid, blocks(self.current_piece),
                                         main_color(self.current_piece.tetromino_type),
                                         1)]

(* main.rs Game::clear_lines, first loop: the complete rows y..19, in
   increasing order *)
RECURSIVE main_lines_to_clear(_, _)
main_lines_to_clear(g, y) ==
  IF y >= GRID_HEIGHT THEN <<>>
  ELSE IF \A x \in 1..GRID_WIDTH : g[y + 1][x] # Empty
       THEN <<y>> \o main_lines_to_clear(g, y + 1)
       ELSE main_lines_to_clear(g, y + 1)

(* main.rs Game::clear_lines, second loop: for the recorded rows i..1, last
   first, remove the row at that index and insert an Empty row on top *)
RECURSIVE main_remove_lines(_, _, _)
main_remove_lines(g, lines_to_clear, i) ==
  IF i = 0 THEN g
  ELSE LET y == lines_to_clear[i]
       IN  main_remove_lines(<<EmptyRow>> \o SubSeq(g, 1, y) \o SubSeq(g, y + 2, Len(g)),
                             lines_to_clear, i - 1)

(* main.rs Game::clear_lines: the engine after it and the count returned *)
main_clear_lines(self) ==
  LET lines_to_clear == main_lines_to_clear(self.grid, 0)
  IN  [self |-> [self EXCEPT !.grid = main_remove_lines(self.grid, lines_to_clear,
                                                       Len(lines_to_clear))],
       ret |-> Len(lines_to_clear)]

(* main.rs Game::add_score *)
main_add_score(self, lines) ==
  LET score1 == self.score + base_score(lines) * self.level
      lines1 == self.lines_cleared + lines
      new_level == (lines1 \div LINES_PER_LEVEL) + 1
  IN  [self EXCEPT !.score = score1,
                   !.lines_cleared = lines1,
                   !.level = IF new_level > self.level THEN new_level ELSE self.level]

(* main.rs Game::spawn_next_piece *)
main_spawn_next_piece(self) ==
  LET next_type == Head(self.preview_queue)
      d == next_piece(self.rng)
      spawned == Tetromino_new(next_type)
      s1 == [self EXCEPT !.preview_queue = Append(Tail(self.preview_queue), d.piece),
                         !.rng = d.provider,
                         !.current_piece = spawned]
  IN  IF ~main_is_valid_position(s1, spawned)
      THEN [s1 EXCEPT !.state = GameOver]
      ELSE s1

(* main.rs Game::move_piece: the engine after it and the bool returned *)
main_move_piece(self, dx, dy) ==
  LET m == moved(self.current_piece, dx, dy)
  IN  IF main_is_valid_position(self, m)
      THEN [self |-> [self EXCEPT !.current_piece = m], ret |-> TRUE]
      ELSE [self |-> self, ret |-> FALSE]

(* main.rs Game::rotate_piece, the loop over kicks i..5 *)
RECURSIVE main_try_kicks(_, _, _)
main_try_kicks(self, rot, i) ==
  IF i > Len(kicks) THEN self
  ELSE LET kicked == [rot EXCEPT !.position = [x |-> rot.position.x + kicks[i][1],
                                               y |-> rot.position.y + kicks[i][2]]]
       IN  IF main_is_valid_position(self, kicked)
           THEN [self EXCEPT !.current_piece = kicked]
           ELSE main_try_kicks(self, rot, i + 1)

(* main.rs Game::rotate_piece *)
main_rotate_piece(self, clockwise) ==
  LET rot == rotated(self.current_piece, clockwise)
  IN  IF main_is_valid_position(self, rot)
      THEN [self EXCEPT !.current_piece = rot]
      ELSE main_try_kicks(self, rot, 1)

(* main.rs Game::lock_and_spawn *)
main_lock_and_spawn(self) ==
  LET c == main_clear_lines(main_lock_piece(self))
  IN  main_spawn_next_piece(IF c.ret > 0 THEN main_add_score(c.self, c.ret) ELSE c.self)

(* main.rs Game::hard_drop, its while loop *)
RECURSIVE main_drop_loop(_)
main_drop_loop(self) ==
  LET m == main_move_piece(self, 0, 1)
  IN  IF m.ret THEN main_drop_loop(m.self) ELSE m.self

(* main.rs Game::hard_drop *)
main_hard_drop(self) == main_lock_and_spawn(main_drop_loop(self))

(* main.rs Game::soft_drop *)
main_soft_drop(self) ==
  LET m == main_move_piece(self, 0, 1)
  IN  IF ~m.ret THEN main_lock_and_spawn(m.self) ELSE m.self

(* main.rs Game::tick *)
main_tick(self) ==
  IF ~(self.state = Playing) THEN self
  ELSE LET m == main_move_piece(self, 0, 1)
       IN  IF ~m.ret THEN main_lock_and_spawn(m.self) ELSE m.self

----------------------------------------------------------------------------
(* The callers of the library: one action per public method of impl Game *)

(* the record of a call: its name, its arguments, the engine it was made on,
   and what it returned *)
NoCall ==
  [op |-> "none", dx |-> 0, dy |-> 0, clockwise |-> FALSE, lines |-> 0,
   before |-> Self, ok |-> FALSE, count |-> 0, taken |-> <<>>,
   ms |-> 0, view |-> <<>>, kind |-> "none"]

CommitEngine(s) ==
  \E r \in {s} :
    /\ grid' = r.grid
    /\ current_piece' = r.current_piece
    /\ preview_queue' = r.preview_queue
    /\ score' = r.score
    /\ lines_cleared' = r.lines_cleared
    /\ level' = r.level
    /\ high_score' = r.high_score
    /\ state' = r.state
    /\ piece_provider' = r.piece_provider
    /\ events' = r.events
    /\ hs_file' = r.hs_file
    /\ save_calls' = r.save_calls
    /\ load_calls' = r.load_calls

(* a call made on the engine alone *)
Commit(s) == CommitEngine(s) /\ twin' = twin

(* the state right after a constructor returned s, and t for the second engine *)
ConstructedPair(s, t, name, n) ==
  /\ grid = s.grid
  /\ current_piece = s.current_piece
  /\ preview_queue = s.preview_queue
  /\ score = s.score
  /\ lines_cleared = s.lines_cleared
  /\ level = s.level
  /\ high_score = s.high_score
  /\ state = s.state
  /\ piece_provider = s.piece_provider
  /\ events = s.events
  /\ hs_file = s.hs_file
  /\ save_calls = s.save_calls
  /\ load_calls = s.load_calls
  /\ last = [op |-> name, dx |-> 0, dy |-> 0, clockwise |-> FALSE, lines |-> 0,
             before |-> s, ok |-> FALSE, count |-> 0, taken |-> <<>>,
             ms |-> 0, view |-> <<>>, kind |-> "none"]
  /\ twin = [engine |-> t, ok |-> FALSE, taken |-> <<>>, read |-> t.hs_file]
  /\ fuel = n

(* the state right after a constructor returned s, where one engine is run:
   the second engine is an idle one that is never called *)
Constructed(s, name, n) ==
  ConstructedPair(s, with_provider(SequencePieceProvider_new(<<"O">>), -1), name, n)

(* the arguments a caller hands to move_piece(dx, dy): one-cell moves and
   jumps (move_piece checks the destination only) *)
MoveInputs ==
  { <<-1, 0>>, <<1, 0>>, <<-4, 0>>, <<3, 0>> }

(* the provider sequences and high-score files an engine is constructed with *)
Scenarios ==
  { [pieces |-> <<"T", "J", "O", "O", "I">>, file |-> -1],
    [pieces |-> <<"T", "J", "O", "O", "I">>, file |-> 100] }

Init ==
  \E sc \in Scenarios :
    Constructed(with_provider(SequencePieceProvider_new(sc.pieces), sc.file),
                "with_provider", MaxFuel)

MovePiece(dx, dy) ==
  /\ fuel > 0
  /\ LET r == move_piece(Self, dx, dy)
     IN  /\ Commit(r.self)
         /\ last' = [NoCall EXCEPT !.op = "move_piece", !.dx = dx, !.dy = dy,
                                   !.ok = r.ret]
  /\ fuel' = fuel - 1

RotatePiece(clockwise) ==
  /\ fuel > 0
  /\ LET r == rotate_piece(Self, clockwise)
     IN  /\ Commit(r.self)
         /\ last' = [NoCall EXCEPT !.op = "rotate_piece", !.clockwise = clockwise,
                                   !.ok = r.ret]
  /\ fuel' = fuel - 1

SoftDrop ==
  /\ fuel > 0
  /\ Commit(soft_drop(Self))
  /\ last' = [NoCall EXCEPT !.op = "soft_drop"]
  /\ fuel' = fuel - 1

Tick ==
  /\ fuel > 0
  /\ Commit(tick(Self))
  /\ last' = [NoCall EXCEPT !.op = "tick"]
  /\ fuel' = fuel - 1

HardDrop ==
  /\ state = Playing \/ fuel > 0
  /\ Commit(hard_drop(Self))
  /\ last' = [NoCall EXCEPT !.op = "hard_drop"]
  /\ fuel' = IF state = Playing THEN fuel ELSE fuel - 1

TogglePause ==
  /\ fuel > 0
  /\ Commit(toggle_pause(Self))
  /\ last' = [NoCall EXCEPT !.op = "toggle_pause"]
  /\ fuel' = fuel - 1

Restart ==
  /\ fuel > 0
  /\ Commit(restart(Self))
  /\ last' = [NoCall EXCEPT !.op = "restart"]
  /\ fuel' = fuel - 1

TakeEvents ==
  /\ fuel > 0
  /\ LET r == take_events(Self)
     IN  /\ Commit(r.self)
         /\ last' = [NoCall EXCEPT !.op = "take_events", !.taken = r.ret]
  /\ fuel' = fuel - 1

(* render_grid takes &self: the engine is not written *)
RenderGrid ==
  /\ fuel > 0
  /\ Commit(Self)
  /\ last' = [NoCall EXCEPT !.op = "render_grid", !.view = render_grid(Self)]
  /\ fuel' = fuel - 1

(* spawn_next_piece is public and has no lifecycle guard: the tests call it
   directly *)
SpawnNextPiece ==
  /\ fuel > 0
  /\ Commit(spawn_next_piece(Self))
  /\ last' = [NoCall EXCEPT !.op = "spawn_next_piece"]
  /\ fuel' = fuel - 1

Next ==
  \/ \E m \in MoveInputs : MovePiece(m[1], m[2])
  \/ \E cw \in BOOLEAN : RotatePiece(cw)
  \/ SoftDrop
  \/ Tick
  \/ HardDrop
  \/ TogglePause
  \/ Restart
  \/ TakeEvents
  \/ RenderGrid
  \/ SpawnNextPiece

Spec == Init /\ [][Next]_vars

----------------------------------------------------------------------------
(* Engines built by Game::with_grid, as the tests of tests/game_tests.rs build
   them: a board, a placed piece, and direct calls of the public methods. *)

(* with_grid draws its queue at random and holds a random provider *)
GridQueue == <<"I", "O", "T", "S">>
GridPieces == <<"Z", "J", "L">>

GridOf(cols) ==
  [y \in 1..GRID_HEIGHT |->
     [x \in 1..GRID_WIDTH |-> IF (x - 1) \in cols[y] THEN Filled("T") ELSE Empty]]

(* a board with a stack on the floor: a step on the left, a well three deep in
   column 3, a hole in column 6 and a step on the right; no row is complete *)
TerrainGrid ==
  GridOf([y \in 1..GRID_HEIGHT |->
            CASE y = 16 -> {0}
              [] y = 17 -> {0, 1, 8}
              [] y = 18 -> {0, 1, 2, 4, 8, 9}
              [] y = 19 -> {0, 1, 2, 4, 5, 7, 8, 9}
              [] y = 20 -> {0, 1, 2, 4, 5, 6, 7, 8, 9}
              [] OTHER -> {}])

(* every piece placed on the board *)
Placements ==
  { [tetromino_type |-> t, position |-> [x |-> x, y |-> y], rotation |-> r] :
      t \in TetrominoType, x \in 0..(GRID_WIDTH - 1), y \in 0..(GRID_HEIGHT - 1),
      r \in 0..3 }

InitGrid ==
  \E piece \in Placements :
    LET s == with_grid(TerrainGrid, piece, GridQueue, GridPieces, -1)
    IN  /\ is_valid_position(s, piece)
        /\ Constructed(s, "with_grid", MaxGridFuel)

(* the arguments of move_piece on the stack: single steps and jumps *)
GridMoveInputs ==
  { <<-1, 0>>, <<1, 0>>, <<0, 1>>, <<0, -1>>, <<-4, 0>>, <<4, 0>>, <<0, 18>> }

NextGrid ==
  \/ \E m \in GridMoveInputs : MovePiece(m[1], m[2])
  \/ \E cw \in BOOLEAN : RotatePiece(cw)

SpecGrid == InitGrid /\ [][NextGrid]_vars

(* the sets of at most k rows *)
RECURSIVE RowSets(_)
RowSets(k) ==
  IF k = 0 THEN {{}}
  ELSE LET P == RowSets(k - 1)
       IN  P \cup { S \cup {y} : S \in P, y \in 0..(GRID_HEIGHT - 1) }

(* a row that is not complete, and differs from every other such row below row 3 *)
PartialRow(y) ==
  [x \in 1..GRID_WIDTH |->
     IF y >= 4 /\ x <= (y % 9) + 1
     THEN Filled(CASE y \div 9 = 0 -> "I" [] y \div 9 = 1 -> "O" [] OTHER -> "L")
     ELSE Empty]

(* test_helpers::fill_row on the rows of F, over the partial rows *)
ClearBoard(F) ==
  [y \in 1..GRID_HEIGHT |->
     IF (y - 1) \in F THEN [x \in 1..GRID_WIDTH |-> Filled("T")]
     ELSE PartialRow(y - 1)]

(* the boards of the line clearing tests: a few complete rows anywhere, and
   edge_cases::all_rows_filled_and_cleared *)
FullRowSets == RowSets(MaxFullRows) \cup { 0..(GRID_HEIGHT - 1) }

InitClear ==
  \E F \in FullRowSets :
    Constructed(with_grid(ClearBoard(F), Tetromino_new_at("I", 0, 0),
                          GridQueue, GridPieces, -1),
                "with_grid", MaxFuel)

(* a direct call of Game::clear_lines *)
ApiClearLines ==
  /\ fuel > 0
  /\ LET r == clear_lines(Self)
     IN  /\ Commit(r.self)
         /\ last' = [NoCall EXCEPT !.op = "clear_lines", !.count = r.ret]
  /\ fuel' = fuel - 1

NextClear == ApiClearLines

(* clear_lines of main.rs applied to the same boards *)
MainClearLines ==
  /\ fuel > 0
  /\ LET r == main_clear_lines(Self)
     IN  /\ Commit(r.self)
         /\ last' = [NoCall EXCEPT !.op = "main_clear_lines", !.count = r.ret]
  /\ fuel' = fuel - 1

SpecMainClear == InitClear /\ [][MainClearLines]_vars

SpecClear == InitClear /\ [][NextClear]_vars

InitScore ==
  Constructed(with_grid(EmptyGrid, Tetromino_new("O"), GridQueue, GridPieces, -1),
              "with_grid", MaxFuel)

(* a direct call of Game::add_score *)
ApiAddScore(lines) ==
  /\ fuel > 0
  /\ Commit(add_score(Self, lines))
  /\ last' = [NoCall EXCEPT !.op = "add_score", !.lines = lines]
  /\ fuel' = fuel - 1

NextScore == \E lines \in 0..MaxApiLines : ApiAddScore(lines)

SpecScore == InitScore /\ [][NextScore]_vars

(* add_score called directly, and the game restarted in between *)
NextLevel ==
  \/ \E lines \in 0..MaxApiLines : ApiAddScore(lines)
  \/ Restart

SpecLevel == InitScore /\ [][NextLevel]_vars

(* integration::complete_game_scenario_tetris: an engine from with_provider
   whose board is then set to k rows filled but for column 9, with a vertical
   I piece above the gap and the events drained *)
GapRows(k) ==
  [y \in 1..GRID_HEIGHT |->
     IF y > GRID_HEIGHT - k
     THEN [x \in 1..GRID_WIDTH |-> IF x - 1 # GRID_WIDTH - 1 THEN Filled("T") ELSE Empty]
     ELSE EmptyRow]

InitStack ==
  \E k \in 1..MaxGapRows :
    LET g == with_provider(SequencePieceProvider_new(<<"I", "O">>), -1)
    IN  Constructed([g EXCEPT !.grid = GapRows(k),
                              !.current_piece =
                                 [Tetromino_new_at("I", GRID_WIDTH - 1, 0) EXCEPT !.rotation = 1],
                              !.events = <<>>],
                    "with_provider", MaxFuel)

SpecStack == InitStack /\ [][Next]_vars

(* the stack with three cells left hanging over open rows, as a line clear
   leaves them: a piece above them lands on them although it would fit below *)
OverhangGrid ==
  [y \in 1..GRID_HEIGHT |->
     [x \in 1..GRID_WIDTH |->
        IF y = 13 /\ (x - 1) \in {4, 5, 6} THEN Filled("Z") ELSE TerrainGrid[y][x]]]

InitDrop ==
  \E piece \in Placements :
    LET s == with_grid(OverhangGrid, piece, GridQueue, GridPieces, -1)
    IN  /\ is_valid_position(s, piece)
        /\ Constructed(s, "with_grid", MaxGridFuel)

NextDrop == HardDrop

SpecDrop == InitDrop /\ [][NextDrop]_vars

(* the same setup with the piece either above the gap or resting in it
   (soft_drop::soft_drop_locks_when_blocked), on an engine whose add_score has
   already counted `pre` lines, so that a clear can raise the level *)
LockPresets == {0, LINES_PER_LEVEL - 1}

InitLock ==
  \E k \in 1..MaxGapRows, pre \in LockPresets, y \in {0, GRID_HEIGHT - 4} :
    LET g == with_provider(SequencePieceProvider_new(<<"I", "O">>), -1)
        a == add_score([g EXCEPT !.grid = GapRows(k),
                                 !.current_piece =
                                    [Tetromino_new_at("I", GRID_WIDTH - 1, y)
                                       EXCEPT !.rotation = 1]],
                       pre)
    IN  Constructed([a EXCEPT !.events = <<>>], "with_provider", MaxFuel)

NextLock ==
  \/ SoftDrop
  \/ Tick
  \/ HardDrop

SpecLock == InitLock /\ [][NextLock]_vars

----------------------------------------------------------------------------
(* Vocabulary of the properties.  It is written from the rules of the game, not
   from the operators above, so that a property compares two descriptions. *)

(* the engine the last call was made on *)
Before == last.before

(* the fields of the engine the last call left as they were *)
Kept(F) == \A f \in F : Self[f] = Before[f]

EngineFields == DOMAIN Self

GameplayOps == {"move_piece", "rotate_piece", "soft_drop", "hard_drop", "tick"}

(* the four cells of a piece *)
CellsOf(piece) ==
  LET sh == shapes(piece.tetromino_type)[piece.rotation + 1]
  IN  { <<piece.position.x + sh[i][1], piece.position.y + sh[i][2]>> : i \in 1..4 }

PieceInside(piece) ==
  \A c \in CellsOf(piece) :
    c[1] >= 0 /\ c[1] < GRID_WIDTH /\ c[2] >= 0 /\ c[2] < GRID_HEIGHT

PieceFits(g, piece) ==
  /\ PieceInside(piece)
  /\ \A c \in CellsOf(piece) : g[c[2] + 1][c[1] + 1] = Empty

Translated(piece, dx, dy) ==
  [piece EXCEPT !.position = [x |-> piece.position.x + dx, y |-> piece.position.y + dy]]

(* engines at every level up to MaxLevel: the lines are counted by add_score *)
InitTick ==
  \E lvl \in 1..MaxLevel, extra \in 0..(LINES_PER_LEVEL - 1) :
    Constructed(add_score(with_grid(EmptyGrid, Tetromino_new("O"), GridQueue,
                                    GridPieces, -1),
                          (lvl - 1) * LINES_PER_LEVEL + extra),
                "with_grid", MaxGridFuel)

(* tick_duration_ms takes &self: the engine is not written *)
TickDurationMs ==
  /\ fuel > 0
  /\ Commit(Self)
  /\ last' = [NoCall EXCEPT !.op = "tick_duration_ms", !.ms = tick_duration_ms(Self)]
  /\ fuel' = fuel - 1

NextTick == TickDurationMs

SpecTick == InitTick /\ [][NextTick]_vars

(* Two engines constructed with equal sequence providers and with high-score
   files that load the same value (a missing file and a file holding 0 both
   load 0), each handed the same calls. *)
TwinScenarios ==
  { [pieces |-> <<"T", "J", "O", "O", "I">>,
     twin_pieces |-> <<"T", "J", "O", "O", "I">>,
     file |-> -1, twin_file |-> 0],
    [pieces |-> <<"T", "J", "O", "O", "I">>,
     twin_pieces |-> <<"T", "J", "O", "O", "I">>,
     file |-> 100, twin_file |-> 100] }

InitTwin ==
  \E sc \in TwinScenarios :
    /\ load_high_score(sc.file) = load_high_score(sc.twin_file)
    /\ ConstructedPair(with_provider(SequencePieceProvider_new(sc.pieces), sc.file),
                       with_provider(SequencePieceProvider_new(sc.twin_pieces),
                                     sc.twin_file),
                       "with_provider", MaxFuel)

(* what HIGH_SCORE_FILE can hold besides what the engine last wrote: the path
   is one fixed relative name, written by every engine that ends a game on a
   new high score, and the result of std::fs::write is dropped *)
OtherWrites == {250}

(* what the file can hold when the second engine is called: what its last
   call left, or what another writer of the path left since *)
FileNow == {twin.engine.hs_file} \cup OtherWrites

(* the second engine, called while the file holds f *)
TwinSelf(f) == [twin.engine EXCEPT !.hs_file = f]

(* what the second engine is after a call made while the file held f, and
   what the call returned on it *)
TwinAfter(f, t, ok, taken) ==
  twin' = [engine |-> t, ok |-> ok, taken |-> taken, read |-> f]

TwinMovePiece(f, dx, dy) ==
  /\ fuel > 0
  /\ LET r == move_piece(Self, dx, dy)
         t == move_piece(TwinSelf(f), dx, dy)
     IN  /\ CommitEngine(r.self)
         /\ TwinAfter(f, t.self, t.ret, <<>>)
         /\ last' = [NoCall EXCEPT !.op = "move_piece", !.dx = dx, !.dy = dy,
                                   !.ok = r.ret]
  /\ fuel' = fuel - 1

TwinRotatePiece(f, clockwise) ==
  /\ fuel > 0
  /\ LET r == rotate_piece(Self, clockwise)
         t == rotate_piece(TwinSelf(f), clockwise)
     IN  /\ CommitEngine(r.self)
         /\ TwinAfter(f, t.self, t.ret, <<>>)
         /\ last' = [NoCall EXCEPT !.op = "rotate_piece", !.clockwise = clockwise,
                                   !.ok = r.ret]
  /\ fuel' = fuel - 1

TwinSoftDrop(f) ==
  /\ fuel > 0
  /\ CommitEngine(soft_drop(Self))
  /\ TwinAfter(f, soft_drop(TwinSelf(f)), FALSE, <<>>)
  /\ last' = [NoCall EXCEPT !.op = "soft_drop"]
  /\ fuel' = fuel - 1

TwinTick(f) ==
  /\ fuel > 0
  /\ CommitEngine(tick(Self))
  /\ TwinAfter(f, tick(TwinSelf(f)), FALSE, <<>>)
  /\ last' = [NoCall EXCEPT !.op = "tick"]
  /\ fuel' = fuel - 1

TwinHardDrop(f) ==
  /\ state = Playing \/ fuel > 0
  /\ CommitEngine(hard_drop(Self))
  /\ TwinAfter(f, hard_drop(TwinSelf(f)), FALSE, <<>>)
  /\ last' = [NoCall EXCEPT !.op = "hard_drop"]
  /\ fuel' = IF state = Playing THEN fuel ELSE fuel - 1

TwinTogglePause(f) ==
  /\ fuel > 0
  /\ CommitEngine(toggle_pause(Self))
  /\ TwinAfter(f, toggle_pause(TwinSelf(f)), FALSE, <<>>)
  /\ last' = [NoCall EXCEPT !.op = "toggle_pause"]
  /\ fuel' = fuel - 1

TwinRestart(f) ==
  /\ fuel > 0
  /\ CommitEngine(restart(Self))
  /\ TwinAfter(f, restart(TwinSelf(f)), FALSE, <<>>)
  /\ last' = [NoCall EXCEPT !.op = "restart"]
  /\ fuel' = fuel - 1

TwinTakeEvents(f) ==
  /\ fuel > 0
  /\ LET r == take_events(Self)
         t == take_events(TwinSelf(f))
     IN  /\ CommitEngine(r.self)
         /\ TwinAfter(f, t.self, FALSE, t.ret)
         /\ last' = [NoCall EXCEPT !.op = "take_events", !.taken = r.ret]
  /\ fuel' = fuel - 1

TwinSpawnNextPiece(f) ==
  /\ fuel > 0
  /\ CommitEngine(spawn_next_piece(Self))
  /\ TwinAfter(f, spawn_next_piece(TwinSelf(f)), FALSE, <<>>)
  /\ last' = [NoCall EXCEPT !.op = "spawn_next_piece"]
  /\ fuel' = fuel - 1

NextTwin ==
  \/ \E f \in FileNow, m \in MoveInputs : TwinMovePiece(f, m[1], m[2])
  \/ \E f \in FileNow, cw \in BOOLEAN : TwinRotatePiece(f, cw)
  \/ \E f \in FileNow : TwinSoftDrop(f)
  \/ \E f \in FileNow : TwinTick(f)
  \/ \E f \in FileNow : TwinHardDrop(f)
  \/ \E f \in FileNow : TwinTogglePause(f)
  \/ \E f \in FileNow : TwinRestart(f)
  \/ \E f \in FileNow : TwinTakeEvents(f)
  \/ \E f \in FileNow : TwinSpawnNextPiece(f)

SpecTwin == InitTwin /\ [][NextTwin]_vars

(* The terminal binary: main() constructs its own Game and hands it the key
   presses and the ticks. Its Game has no high score and no events: those
   variables stay as constructed. The variable piece_provider holds the
   random source of the run. *)

(* the kinds TetrominoType::random returns in the runs explored: every list
   of 1 to 3 kinds out of two, repeated *)
RandomKinds == {"I", "O"}

RandomRuns == UNION { [1..n -> RandomKinds] : n \in 1..3 }

(* struct Game of main.rs and the random source, read from the variables *)
MainSelf ==
  [grid |-> grid, current_piece |-> current_piece, preview_queue |-> preview_queue,
   score |-> score, lines_cleared |-> lines_cleared, level |-> level,
   state |-> state, rng |-> piece_provider]

MainCommit(m) ==
  \E r \in {m} :
    /\ grid' = r.grid
    /\ current_piece' = r.current_piece
    /\ preview_queue' = r.preview_queue
    /\ score' = r.score
    /\ lines_cleared' = r.lines_cleared
    /\ level' = r.level
    /\ state' = r.state
    /\ piece_provider' = r.rng
    /\ UNCHANGED <<high_score, events, hs_file, save_calls, load_calls, twin>>

InitMain ==
  \E run \in RandomRuns :
    LET m == main_new(SequencePieceProvider_new(run))
    IN  Constructed([grid |-> m.grid, current_piece |-> m.current_piece,
                     preview_queue |-> m.preview_queue, score |-> m.score,
                     lines_cleared |-> m.lines_cleared, level |-> m.level,
                     high_score |-> 0, state |-> m.state,
                     piece_provider |-> m.rng,
                     events |-> <<>>, hs_file |-> -1, save_calls |-> 0,
                     load_calls |-> 0],
                    "main_new", MaxMainFuel)

(* the keys a/d *)
MainMovePiece(dx) ==
  /\ fuel > 0
  /\ LET r == main_move_piece(MainSelf, dx, 0)
     IN  /\ MainCommit(r.self)
         /\ last' = [NoCall EXCEPT !.op = "main_move_piece", !.dx = dx, !.ok = r.ret]
  /\ fuel' = fuel - 1

(* the keys Left/h and Right/l *)
MainRotatePiece(clockwise) ==
  /\ fuel > 0
  /\ MainCommit(main_rotate_piece(MainSelf, clockwise))
  /\ last' = [NoCall EXCEPT !.op = "main_rotate_piece", !.clockwise = clockwise]
  /\ fuel' = fuel - 1

(* the keys s/j *)
MainSoftDrop ==
  /\ fuel > 0
  /\ MainCommit(main_soft_drop(MainSelf))
  /\ last' = [NoCall EXCEPT !.op = "main_soft_drop"]
  /\ fuel' = fuel - 1

(* the keys w/k *)
MainHardDrop ==
  /\ state = Playing \/ fuel > 0
  /\ MainCommit(main_hard_drop(MainSelf))
  /\ last' = [NoCall EXCEPT !.op = "main_hard_drop"]
  /\ fuel' = IF state = Playing THEN fuel ELSE fuel - 1

(* the tick of the main loop of the binary *)
MainTick ==
  /\ fuel > 0
  /\ MainCommit(main_tick(MainSelf))
  /\ last' = [NoCall EXCEPT !.op = "main_tick"]
  /\ fuel' = fuel - 1

NextMain ==
  \/ \E dx \in {-1, 1} : MainMovePiece(dx)
  \/ \E cw \in BOOLEAN : MainRotatePiece(cw)
  \/ MainSoftDrop
  \/ MainHardDrop
  \/ MainTick

SpecMain == InitMain /\ [][NextMain]_vars

(* every public method called on a piece placed anywhere on the stack *)
NextBounds ==
  \/ \E m \in GridMoveInputs : MovePiece(m[1], m[2])
  \/ \E cw \in BOOLEAN : RotatePiece(cw)
  \/ SoftDrop
  \/ Tick
  \/ HardDrop
  \/ TogglePause
  \/ Restart
  \/ RenderGrid
  \/ SpawnNextPiece

SpecBounds == InitGrid /\ [][NextBounds]_vars

(* every piece handed to with_grid for rendering: over stored cells and
   partly off the board as well *)
RenderPlacements ==
  { [tetromino_type |-> t, position |-> [x |-> x, y |-> y], rotation |-> r] :
      t \in TetrominoType, x \in -2..(GRID_WIDTH - 1), y \in -2..(GRID_HEIGHT - 1),
      r \in 0..3 }

(* an engine built by with_grid, its state field then assigned *)
InitRender ==
  \E piece \in RenderPlacements, st \in {Playing, Paused, GameOver} :
    Constructed([with_grid(TerrainGrid, piece, GridQueue, GridPieces, -1)
                   EXCEPT !.state = st],
                "with_grid", MaxGridFuel)

NextRender == RenderGrid

SpecRender == InitRender /\ [][NextRender]_vars

(* the lists a sequence provider is built from *)
ProviderKinds == {"I", "O", "T"}

ProviderLists ==
  UNION { [1..n -> ProviderKinds] : n \in 1..MaxListLen }

InitProvider ==
  \E pieces \in ProviderLists :
    Constructed(with_provider(SequencePieceProvider_new(pieces), -1),
                "with_provider", MaxDraws)

(* a call of next_piece on the engine's provider *)
NextPiece ==
  /\ fuel > 0
  /\ LET r == next_piece(piece_provider)
     IN  /\ Commit([Self EXCEPT !.piece_provider = r.provider])
         /\ last' = [NoCall EXCEPT !.op = "next_piece", !.kind = r.piece]
  /\ fuel' = fuel - 1

NextProvider == NextPiece

SpecProvider == InitProvider /\ [][NextProvider]_vars

----------------------------------------------------------------------------
(* C1: in every state reached from a constructed engine by any calls, if the
   state is Playing then the four blocks of the current piece are inside the
   board and on Empty cells. *)
C1_PlayingPieceValid == state = Playing => PieceFits(grid, current_piece)

(* a successful rotation over a board that already holds locked pieces *)
C1_Witness ==
  state = Playing /\ grid # EmptyGrid /\ last.op = "rotate_piece" /\ last.ok

(* C2: a call of move, rotate, soft drop, hard drop or tick made while Paused or
   GameOver leaves board, current piece, preview queue, score, lines cleared,
   level, high score, state and pending events as they were, and move and
   rotate return false. *)
C2_NoGameplayWhileNotPlaying ==
  (last.op \in GameplayOps /\ Before.state \in {Paused, GameOver})
    => /\ Kept({"grid", "current_piece", "preview_queue", "score", "lines_cleared",
                "level", "high_score", "state", "events"})
       /\ (last.op \in {"move_piece", "rotate_piece"} => ~last.ok)

(* a move attempted after the game ended *)
C2_Witness == last.op = "move_piece" /\ Before.state = GameOver /\ ~last.ok

(* C3: a call made in GameOver leaves the state GameOver unless it is restart,
   and restart leaves it Playing. *)
C3_GameOverUntilRestart ==
  Before.state = GameOver
    => IF last.op = "restart" THEN state = Playing ELSE state = GameOver

(* a restart out of GameOver *)
C3_Witness == last.op = "restart" /\ Before.state = GameOver /\ state = Playing

(* C4: toggle_pause turns Playing into Paused and appends one Paused event,
   turns Paused into Playing and appends one Unpaused event, and changes
   nothing in GameOver; board, piece, queue, score, lines cleared and level are
   kept in all three cases. *)
C4_TogglePause ==
  last.op = "toggle_pause"
    => /\ CASE Before.state = Playing ->
                 state = Paused /\ events = Append(Before.events, EvPaused)
            [] Before.state = Paused ->
                 state = Playing /\ events = Append(Before.events, EvUnpaused)
            [] OTHER -> state = GameOver /\ events = Before.events
       /\ Kept({"grid", "current_piece", "preview_queue", "score", "lines_cleared",
                "level"})

(* a pause that was lifted again *)
C4_Witness ==
  /\ last.op = "toggle_pause" /\ Before.state = Paused /\ state = Playing
  /\ events # <<>> /\ events[Len(events)] = EvUnpaused

(* C5: while Playing, move(dx, dy) returns false exactly when the piece moved by
   (dx, dy) leaves the board or meets a filled cell; a failed move changes
   nothing; a successful one moves the anchor by (dx, dy), keeps kind and
   rotation, appends one PieceMoved and changes nothing else. *)
C5_MoveFailsIffBlocked ==
  (last.op = "move_piece" /\ Before.state = Playing)
    => LET target == Translated(Before.current_piece, last.dx, last.dy)
       IN  /\ last.ok <=> PieceFits(Before.grid, target)
           /\ ~last.ok => Kept(EngineFields)
           /\ last.ok => /\ current_piece = target
                          /\ events = Append(Before.events, EvPieceMoved)
                          /\ Kept(EngineFields \ {"current_piece", "events"})

(* a move refused by a filled cell, the destination lying inside the board *)
C5_Witness ==
  /\ last.op = "move_piece" /\ Before.state = Playing /\ ~last.ok
  /\ PieceInside(Translated(Before.current_piece, last.dx, last.dy))

(* the placements a rotation may commit, in the order of preference: the piece
   turned at its anchor, then turned and shifted *)
RotationOffsets == << <<0, 0>>, <<1, 0>>, <<-1, 0>>, <<0, -1>>, <<2, 0>>, <<-2, 0>> >>

Turned(piece, clockwise) ==
  [piece EXCEPT !.rotation = IF clockwise THEN (@ + 1) % 4 ELSE (@ + 3) % 4]

Candidate(piece, clockwise, i) ==
  Translated(Turned(piece, clockwise), RotationOffsets[i][1], RotationOffsets[i][2])

FittingCandidates ==
  { i \in DOMAIN RotationOffsets :
      PieceFits(Before.grid, Candidate(Before.current_piece, last.clockwise, i)) }

(* C6: while Playing, rotate commits the first of the turned piece and its
   shifts by (1,0), (-1,0), (0,-1), (2,0), (-2,0) that is valid, never a later
   one, returns true and appends one PieceRotated. *)
C6_RotateFirstValidKick ==
  (last.op = "rotate_piece" /\ Before.state = Playing /\ FittingCandidates # {})
    => LET first == CHOOSE i \in FittingCandidates :
                      \A j \in FittingCandidates : i <= j
       IN  /\ last.ok
           /\ current_piece = Candidate(Before.current_piece, last.clockwise, first)
           /\ events = Append(Before.events, EvPieceRotated)

(* a rotation that needed a kick although a later kick would also have fitted *)
C6_Witness ==
  /\ last.op = "rotate_piece" /\ Before.state = Playing /\ last.ok
  /\ 1 \notin FittingCandidates
  /\ Cardinality(FittingCandidates) >= 2

(* C7: while Playing, if neither the turned piece nor any of its five shifts is
   valid, rotate returns false and changes nothing: piece, board, counters,
   state and events are as before. *)
C7_RotateFailsUnchanged ==
  (last.op = "rotate_piece" /\ Before.state = Playing /\ FittingCandidates = {})
    => ~last.ok /\ Kept(EngineFields)

(* a rotation refused although the turned piece lies inside the board *)
C7_Witness ==
  /\ last.op = "rotate_piece" /\ Before.state = Playing /\ ~last.ok
  /\ PieceInside(Turned(Before.current_piece, last.clockwise))

(* the reference result of clearing: the rows with an Empty cell, in their
   order, under as many blank rows as there were complete rows *)
HasEmptyCell(row) == \E x \in 1..GRID_WIDTH : row[x] = Empty

RowsKept(g) == SelectSeq(g, HasEmptyCell)

BlankRows(n) == [i \in 1..n |-> [x \in 1..GRID_WIDTH |-> Empty]]

ClearedReference(g) == BlankRows(GRID_HEIGHT - Len(RowsKept(g))) \o RowsKept(g)

(* C8: clear_lines leaves the board equal to the reference result (complete
   rows deleted, the other rows kept in order and layout at the bottom, one
   blank row on top per deleted row) and returns the number of complete rows of
   the board it was called on, whether those rows are adjacent or not. *)
C8_ClearLinesReference ==
  last.op = "clear_lines"
    => /\ grid = ClearedReference(Before.grid)
       /\ last.count = GRID_HEIGHT - Len(RowsKept(Before.grid))

(* complete rows with a partly filled row between them were cleared *)
C8_Witness ==
  /\ last.op = "clear_lines" /\ last.count >= 2 /\ grid # Before.grid
  /\ \E a, b, c \in 1..GRID_HEIGHT :
       /\ a < b /\ b < c
       /\ ~HasEmptyCell(Before.grid[a]) /\ ~HasEmptyCell(Before.grid[c])
       /\ HasEmptyCell(Before.grid[b])
       /\ \E x \in 1..GRID_WIDTH : Before.grid[b][x] # Empty

(* the calls that may lock the piece *)
LockingOps == {"hard_drop", "soft_drop", "tick"}

FilledCount(g) ==
  Cardinality({ c \in (1..GRID_HEIGHT) \X (1..GRID_WIDTH) : g[c[1]][c[2]] # Empty })

(* the rows the last call cleared, counted on the board: a lock adds four cells
   and every cleared row takes ten away *)
RowsCleared ==
  IF grid = Before.grid THEN 0
  ELSE (FilledCount(Before.grid) + 4 - FilledCount(grid)) \div GRID_WIDTH

IsLinesCleared(e) == e[1] = "LinesCleared"

LinesClearedOf(ev) == SelectSeq(ev, IsLinesCleared)

(* C9: every LinesCleared(n) pending or handed out has 1 <= n <= 4, and a call
   that may lock a piece clears between 0 and 4 rows and records
   LinesCleared(count) exactly when count > 0. *)
C9_LinesClearedCount ==
  /\ \A i \in DOMAIN events : IsLinesCleared(events[i]) => events[i][2] \in 1..4
  /\ \A i \in DOMAIN last.taken :
       IsLinesCleared(last.taken[i]) => last.taken[i][2] \in 1..4
  /\ last.op \in LockingOps
       => /\ RowsCleared \in 0..4
          /\ lines_cleared = Before.lines_cleared + RowsCleared
          /\ LinesClearedOf(events) =
               IF RowsCleared > 0
               THEN Append(LinesClearedOf(Before.events), EvLinesCleared(RowsCleared))
               ELSE LinesClearedOf(Before.events)

(* a hard drop that cleared four rows at once *)
C9_Witness ==
  /\ last.op = "hard_drop" /\ RowsCleared = 4
  /\ \E i \in DOMAIN events : events[i] = EvLinesCleared(4)

(* the base score of a number of rows *)
BaseOf(n) ==
  CASE n = 1 -> 100 [] n = 2 -> 300 [] n = 3 -> 500 [] n = 4 -> 800 [] OTHER -> 0

(* C10: add_score(lines) adds base(lines) times the level held before the call
   to the score, base being 100, 300, 500, 800 for 1, 2, 3, 4 and 0 otherwise,
   and adds lines to the lines cleared; a level-up in the same call does not
   change the multiplier. *)
C10_AddScore ==
  last.op = "add_score"
    => /\ score = Before.score + BaseOf(last.lines) * Before.level
       /\ lines_cleared = Before.lines_cleared + last.lines

(* a scoring call that also raised the level *)
C10_Witness ==
  /\ last.op = "add_score" /\ last.lines \in 1..4
  /\ level > Before.level /\ score > Before.score

(* C11: level = lines_cleared / LINES_PER_LEVEL + 1 (integer division) and
   level >= 1 in every state reached by calls of the engine, after every
   add_score and after restart. *)
C11_LevelFromLines ==
  level = (lines_cleared \div LINES_PER_LEVEL) + 1 /\ level >= 1

(* a restart of a game that had reached level 2 *)
C11_Witness ==
  last.op = "restart" /\ Before.level = 2 /\ Before.lines_cleared >= 10 /\ level = 1

(* C12: an add_score call appends LevelUp(l) once, l being lines_cleared /
   LINES_PER_LEVEL + 1 after the call, when l exceeds the level before the
   call, however many thresholds were passed, and appends nothing otherwise. *)
C12_LevelUpOnce ==
  last.op = "add_score"
    => LET l == (lines_cleared \div LINES_PER_LEVEL) + 1
       IN  events = IF l > Before.level
                    THEN Append(Before.events, EvLevelUp(l))
                    ELSE Before.events

(* one call that passed two thresholds *)
C12_Witness ==
  /\ last.op = "add_score" /\ level >= Before.level + 2
  /\ events # <<>> /\ events[Len(events)] = EvLevelUp(level)

(* C13 as stated: the score after any call, restart included, is at least the
   score before it. *)
C13_ScoreNeverDecreases == score >= Before.score

(* C13, amended: the score after a call of move, rotate, soft drop, hard drop,
   tick, toggle_pause or take_events is at least the score before it; restart
   sets it to 0. *)
C13_ScoreDecreasesOnlyByRestart ==
  IF last.op = "restart" THEN score = 0 ELSE score >= Before.score

(* a hard drop that scored *)
C13_Witness == last.op = "hard_drop" /\ score > Before.score

(* C14: the preview queue holds exactly PREVIEW_COUNT kinds after construction
   and after every call, in every lifecycle state. *)
C14_PreviewQueueLength ==
  Len(preview_queue) = 4 /\ \A i \in 1..4 : preview_queue[i] \in TetrominoType

(* the queue after a spawn that ended the game *)
C14_Witness ==
  /\ last.op = "hard_drop" /\ Before.state = Playing /\ state = GameOver
  /\ preview_queue # Before.preview_queue /\ Len(preview_queue) = 4

(* the last call locked the piece and spawned the next one: a hard drop while
   Playing, or a soft drop or tick of a piece that could not go down *)
Locked ==
  /\ last.op \in LockingOps /\ Before.state = Playing
  /\ \/ last.op = "hard_drop"
     \/ ~PieceFits(Before.grid, Translated(Before.current_piece, 0, 1))

(* the last call ran spawn_next_piece: after a lock, or called directly *)
Spawned == Locked \/ last.op = "spawn_next_piece"

(* the kind a cyclic provider hands out next *)
NextKindOf(p) == p.pieces[(p.index % Len(p.pieces)) + 1]

(* C15: a spawn makes the front of the preview queue the kind of the new
   current piece, at anchor (4, 0) with rotation 0, moves the other three
   entries forward in order and appends one kind drawn from the provider. *)
C15_SpawnFromQueue ==
  Locked
    => /\ current_piece = [tetromino_type |-> Before.preview_queue[1],
                           position |-> [x |-> 4, y |-> 0], rotation |-> 0]
       /\ preview_queue = << Before.preview_queue[2], Before.preview_queue[3],
                             Before.preview_queue[4],
                             NextKindOf(Before.piece_provider) >>
       /\ piece_provider.index = Before.piece_provider.index + 1

(* a soft drop that locked a piece other than the kind that came next *)
C15_Witness ==
  /\ Locked /\ last.op = "soft_drop"
  /\ current_piece.tetromino_type # Before.current_piece.tetromino_type
  /\ preview_queue[4] # current_piece.tetromino_type

(* the piece a spawn of the last call put on the board *)
SpawnedPiece ==
  [tetromino_type |-> Before.preview_queue[1],
   position |-> [x |-> 4, y |-> 0], rotation |-> 0]

(* the GameOver events in a buffer *)
GameOversIn(ev) == Cardinality({ i \in DOMAIN ev : ev[i] = EvGameOver })

(* C16: a spawn (after a lock, or called directly) whose piece does not fit
   sets the state to GameOver and appends exactly one GameOver event; a spawn
   whose piece fits leaves the state as it was and appends no GameOver event;
   no call without a spawn appends one. Under move, rotate, soft drop, hard
   drop, tick and pause a GameOver event is appended only by a call made while
   Playing, which ends the game, and a game that is over stays over with no
   further GameOver event: at most one is recorded between two restarts. *)
C16_GameOverOnBlockedSpawn ==
  /\ Spawned =>
       IF PieceFits(grid, SpawnedPiece)
       THEN state = Before.state /\ GameOversIn(events) = GameOversIn(Before.events)
       ELSE /\ state = GameOver
            /\ events # <<>> /\ events[Len(events)] = EvGameOver
            /\ GameOversIn(events) = GameOversIn(Before.events) + 1
  /\ ~Spawned => GameOversIn(events) <= GameOversIn(Before.events)
  /\ last.op \in GameplayOps \cup {"toggle_pause"} =>
       /\ GameOversIn(events) > GameOversIn(Before.events) =>
             Before.state = Playing /\ state = GameOver
       /\ Before.state = GameOver =>
             state = GameOver /\ GameOversIn(events) = GameOversIn(Before.events)

(* a lock whose spawn was blocked *)
C16_Witness ==
  /\ Locked /\ ~PieceFits(grid, SpawnedPiece)
  /\ state = GameOver /\ GameOversIn(events) = 1

(* the last call ended the game with a score above the high score it found *)
NewHighScore ==
  Spawned /\ ~PieceFits(grid, SpawnedPiece) /\ score > Before.high_score

(* C17: save_high_score is called only by a spawn that ends the game with a
   score strictly above the high score, and then the high score and the file
   become that score; in every other call, a game over with score <= high
   score included, high score and file are unchanged and nothing is saved;
   load_high_score is called at construction only. *)
C17_SaveOnlyOnNewHighScore ==
  /\ IF NewHighScore
     THEN /\ save_calls = Before.save_calls + 1
          /\ high_score = score /\ hs_file = score
     ELSE /\ save_calls = Before.save_calls
          /\ high_score = Before.high_score /\ hs_file = Before.hs_file
  /\ load_calls = 1

(* a game that ended above the high score *)
C17_Witness ==
  NewHighScore /\ save_calls = 1 /\ high_score = score /\ Before.high_score < score

(* the events of a buffer other than PieceMoved *)
IsNotMoved(e) == e # EvPieceMoved

NotMovedOf(ev) == SelectSeq(ev, IsNotMoved)

(* what a lock records, in order *)
LockEvents ==
  <<EvPieceLocked>>
    \o (IF RowsCleared > 0 THEN <<EvLinesCleared(RowsCleared)>> ELSE <<>>)
    \o (IF level > Before.level THEN <<EvLevelUp(level)>> ELSE <<>>)
    \o (IF PieceFits(grid, SpawnedPiece) THEN <<>> ELSE <<EvGameOver>>)

(* C18: a soft drop or tick that cannot move the piece down, and the end of a
   hard drop, lock, clear, score and spawn in that order: the events appended
   are PieceLocked, then LinesCleared(n) iff n > 0 rows were cleared, then
   LevelUp(l) iff the level rose, then GameOver iff the spawned piece does not
   fit; add_score is applied for n > 0 only, so a lock that clears nothing
   leaves score, lines cleared and level as they were. *)
C18_LockSequence ==
  Locked
    => /\ NotMovedOf(events) = NotMovedOf(Before.events) \o LockEvents
       /\ Len(events) >= Len(LockEvents)
       /\ SubSeq(events, Len(events) - Len(LockEvents) + 1, Len(events)) = LockEvents
       /\ last.op # "hard_drop" => events = Before.events \o LockEvents
       /\ IF RowsCleared > 0
          THEN /\ score = Before.score + BaseOf(RowsCleared) * Before.level
               /\ lines_cleared = Before.lines_cleared + RowsCleared
          ELSE /\ score = Before.score
               /\ lines_cleared = Before.lines_cleared
               /\ level = Before.level

(* a soft drop that locked, cleared rows and raised the level *)
C18_Witness ==
  /\ Locked /\ last.op = "soft_drop"
  /\ RowsCleared > 0 /\ level > Before.level
  /\ Len(events) = 3

(* how far the piece of the last call falls: every step down to that depth
   fits and the next one does not *)
DropDepth ==
  CHOOSE d \in 0..GRID_HEIGHT :
    /\ \A j \in 1..d : PieceFits(Before.grid, Translated(Before.current_piece, 0, j))
    /\ ~PieceFits(Before.grid, Translated(Before.current_piece, 0, d + 1))

LandedPiece == Translated(Before.current_piece, 0, DropDepth)

(* the board with the cells of a piece written on it *)
WithPiece(g, piece) ==
  [y \in 1..GRID_HEIGHT |->
     [x \in 1..GRID_WIDTH |->
        IF <<x - 1, y - 1>> \in CellsOf(piece) THEN piece.tetromino_type ELSE g[y][x]]]

(* C19: a hard drop while Playing locks the piece at the lowest place reached
   by going straight down through valid places only (same column, rotation
   and kind): the four cells written are its cells there; it then clears
   lines, scores if any were cleared, and spawns, all in the same call. *)
C19_HardDropLands ==
  (last.op = "hard_drop" /\ Before.state = Playing)
    => LET locked == WithPiece(Before.grid, LandedPiece)
           n == GRID_HEIGHT - Len(RowsKept(locked))
       IN  /\ grid = ClearedReference(locked)
           /\ score = Before.score + BaseOf(n) * Before.level
           /\ lines_cleared = Before.lines_cleared + n
           /\ current_piece = SpawnedPiece

(* a hard drop that came to rest above a place where the piece would also fit *)
C19_Witness ==
  /\ last.op = "hard_drop" /\ Before.state = Playing /\ DropDepth > 0
  /\ \E j \in (DropDepth + 2)..GRID_HEIGHT :
       PieceFits(Before.grid, Translated(Before.current_piece, 0, j))

(* C20: a hard drop removes from the buffer only the PieceMoved events of its
   own downward steps: the events pending before the call, PieceMoved events
   of earlier calls included, are still there after it, in the same order. *)
C20_HardDropKeepsPending ==
  (last.op = "hard_drop" /\ Before.state = Playing)
    => /\ Len(events) >= Len(Before.events)
       /\ SubSeq(events, 1, Len(Before.events)) = Before.events

(* C21: from every reachable state tick and soft_drop lead to the same engine
   (board, piece, queue, score, lines cleared, level, high score, state) with
   the same events appended; neither does anything unless the state is
   Playing. *)
C21_TickIsSoftDrop ==
  /\ last.op = "tick" => Self = soft_drop(Before)
  /\ last.op = "soft_drop" => Self = tick(Before)
  /\ (last.op \in {"tick", "soft_drop"} /\ Before.state # Playing)
       => Kept(EngineFields)

(* a tick that locked the piece and spawned the next *)
C21_Witness == Locked /\ last.op = "tick" /\ events # Before.events

(* the duration the level calls for: 800 ms less 50 ms per level above the
   first, never under 100 ms *)
DurationAt(l) ==
  IF 800 - (l - 1) * 50 > 100 THEN 800 - (l - 1) * 50 ELSE 100

(* C22: at every level >= 1 tick_duration_ms returns max(100, 800 - (level-1)*50):
   800 at level 1, 50 less per level up to level 15, 100 from level 15 on,
   and never more than at a lower level. *)
C22_TickDuration ==
  last.op = "tick_duration_ms"
    => /\ level >= 1
       /\ last.ms = DurationAt(level)
       /\ level = 1 => last.ms = 800
       /\ level <= 15 => last.ms = 800 - 50 * (level - 1)
       /\ level >= 15 => last.ms = 100
       /\ \A l \in 1..level : DurationAt(l) >= last.ms
       /\ Kept(EngineFields)

(* the duration asked for at a level where the subtraction would go below zero *)
C22_Witness ==
  /\ last.op = "tick_duration_ms"
  /\ (level - 1) * SPEED_INCREASE_PER_LEVEL > BASE_TICK_MS
  /\ last.ms = MIN_TICK_MS

(* the kind a provider returns i calls from now (i = 0: the next call) *)
KindAfter(p, i) == p.pieces[((p.index + i) % Len(p.pieces)) + 1]

(* C23: restart, in whichever state it is called, leaves the state Playing, a
   board of 20 x 10 Empty cells, score 0, lines cleared 0, level 1, a preview
   queue of the next 4 kinds of the same provider from where its cursor stood,
   the 5th as current piece at (4, 0) with rotation 0, and exactly
   [GameRestarted] pending. *)
C23_Restart ==
  last.op = "restart"
    => /\ state = Playing
       /\ Len(grid) = 20
       /\ \A y \in 1..20 : Len(grid[y]) = 10 /\ \A x \in 1..10 : grid[y][x] = Empty
       /\ score = 0 /\ lines_cleared = 0 /\ level = 1
       /\ preview_queue = [i \in 1..4 |-> KindAfter(Before.piece_provider, i - 1)]
       /\ current_piece = [tetromino_type |-> KindAfter(Before.piece_provider, 4),
                           position |-> [x |-> 4, y |-> 0], rotation |-> 0]
       /\ piece_provider.pieces = Before.piece_provider.pieces
       /\ piece_provider.index = Before.piece_provider.index + 5
       /\ events = <<EvGameRestarted>>

(* a restart of a finished game: cells on the board, events pending, and the
   provider's cursor inside its list *)
C23_Witness ==
  /\ last.op = "restart"
  /\ Before.state = GameOver
  /\ Before.grid # grid
  /\ Len(Before.events) >= 2
  /\ Before.piece_provider.index % Len(Before.piece_provider.pieces) # 0
  /\ preview_queue # Before.preview_queue

(* C24: take_events returns the pending events, all of them and in the order
   they were appended, and leaves the buffer empty, so that a take_events
   called on the engine it leaves returns the empty sequence; nothing else of
   the engine changes. *)
C24_TakeEvents ==
  last.op = "take_events"
    => /\ last.taken = Before.events
       /\ events = <<>>
       /\ Before.events = <<>> => last.taken = <<>>
       /\ Kept(EngineFields \ {"events"})

(* several different events handed out at once *)
C24_Witness ==
  /\ last.op = "take_events"
  /\ Len(last.taken) >= 2
  /\ last.taken[1] # last.taken[Len(last.taken)]
  /\ events = <<>>

(* a is the front of b *)
IsPrefix(a, b) == Len(b) >= Len(a) /\ SubSeq(b, 1, Len(a)) = a

(* the calls that may add events to the buffer *)
RecordingOps ==
  {"move_piece", "rotate_piece", "soft_drop", "hard_drop", "tick",
   "toggle_pause", "restart", "render_grid"}

(* C25 as stated: take_events is the only call that removes events: after every
   other call the events pending before it are still pending, in front and in
   order, and take_events returns them all. *)
C25_OnlyDrainRemoves ==
  /\ last.op \in RecordingOps => IsPrefix(Before.events, events)
  /\ last.op = "take_events" => last.taken = Before.events /\ events = <<>>

(* C25: events are removed by take_events, which returns them all, by restart,
   which leaves only GameRestarted, and by a hard drop while Playing, which
   removes PieceMoved events and keeps every other pending event in order;
   after every other call the events pending before it are still pending, in
   front and in order. *)
C25_EventsRemovedBy ==
  /\ (last.op \in RecordingOps \ {"restart", "hard_drop"})
       => IsPrefix(Before.events, events)
  /\ (last.op = "hard_drop" /\ Before.state # Playing) => events = Before.events
  /\ (last.op = "hard_drop" /\ Before.state = Playing)
       => IsPrefix(NotMovedOf(Before.events), events)
  /\ last.op = "restart" => events = <<EvGameRestarted>>
  /\ last.op = "take_events" => last.taken = Before.events /\ events = <<>>

(* a soft drop or tick that locked with events pending, all still there *)
C25_Witness ==
  /\ Locked /\ last.op \in {"soft_drop", "tick"}
  /\ Len(Before.events) >= 2
  /\ IsPrefix(Before.events, events)
  /\ Len(events) > Len(Before.events)

(* C26: render_grid changes nothing of the engine and appends no event,
   whatever the state; the grid it returns has 20 rows of 10 cells, holds the
   kind of the current piece at each of the piece's cells that lies on the
   board, also where the stored cell is Filled with another kind, and the
   stored cell everywhere else. *)
C26_RenderGrid ==
  last.op = "render_grid"
    => /\ Kept(EngineFields)
       /\ events = Before.events
       /\ Len(last.view) = 20
       /\ \A y \in 0..19 :
            /\ Len(last.view[y + 1]) = 10
            /\ \A x \in 0..9 :
                 last.view[y + 1][x + 1] =
                   IF <<x, y>> \in CellsOf(current_piece)
                   THEN current_piece.tetromino_type
                   ELSE grid[y + 1][x + 1]

(* a piece drawn over a stored cell of another kind *)
C26_Witness ==
  /\ last.op = "render_grid"
  /\ \E c \in CellsOf(current_piece) :
       /\ c[1] \in 0..9 /\ c[2] \in 0..19
       /\ grid[c[2] + 1][c[1] + 1] \notin {Empty, current_piece.tetromino_type}
       /\ last.view[c[2] + 1][c[1] + 1] = current_piece.tetromino_type

(* the k-th element of list L taken cyclically, k counted from 1 *)
Cyclic(L, k) == L[((k - 1) % Len(L)) + 1]

(* the next_piece calls made on the provider so far: 5 by with_provider, then
   one per call since *)
CallsMade == PREVIEW_COUNT + 1 + (MaxDraws - fuel)

(* C27: the k-th next_piece call on a sequence provider over a non-empty list L
   returns L[(k-1) mod |L|]; with_provider puts calls 1..4 into the preview
   queue, front first, and call 5 into the current piece, so with L = [I, O]
   the first current piece is I. *)
C27_SequenceProvider ==
  LET L == piece_provider.pieces
  IN  /\ piece_provider.index = CallsMade
      /\ (last.op = "next_piece"
            => /\ last.kind = Cyclic(L, CallsMade)
               /\ Kept(EngineFields \ {"piece_provider"})
               /\ L = Before.piece_provider.pieces)
      /\ (last.op = "with_provider"
            => /\ preview_queue = [i \in 1..4 |-> Cyclic(L, i)]
               /\ current_piece = [tetromino_type |-> Cyclic(L, 5),
                                   position |-> [x |-> 4, y |-> 0], rotation |-> 0]
               /\ (L = <<"I", "O">> => current_piece.tetromino_type = "I"))

(* the provider over [I, O]: I as the first current piece, and O returned by
   the 6th call *)
C27_Witness ==
  /\ piece_provider.pieces = <<"I", "O">>
  /\ last.op = "next_piece"
  /\ CallsMade = 6
  /\ last.kind = "O"
  /\ current_piece.tetromino_type = "I"
  /\ preview_queue = <<"I", "O", "I", "O">>

(* C28: the cells of the board are written only by a lock, by the line clear
   that follows it and by restart: move_piece, rotate_piece, toggle_pause,
   take_events, render_grid, a soft_drop or tick that moved the piece down,
   and every gameplay call made while not Playing leave every cell as it was. *)
C28_BoardWrittenOnlyByLock ==
  /\ last.op \in {"move_piece", "rotate_piece", "toggle_pause", "take_events",
                   "render_grid"}
       => grid = Before.grid
  /\ (last.op \in {"soft_drop", "tick"} /\ ~Locked) => grid = Before.grid
  /\ (last.op = "hard_drop" /\ Before.state # Playing) => grid = Before.grid
  /\ (last.op \in GameplayOps \cup {"toggle_pause", "take_events", "render_grid"}
        /\ grid # Before.grid) => Locked

(* a soft drop that moved the piece one row down over a board holding cells *)
C28_Witness ==
  /\ last.op = "soft_drop" /\ Before.state = Playing
  /\ current_piece = Translated(Before.current_piece, 0, 1)
  /\ \E y \in 1..GRID_HEIGHT, x \in 1..GRID_WIDTH : grid[y][x] # Empty
  /\ grid = Before.grid

(* C29: in every state reached from a constructed engine the board has
   exactly 20 rows of exactly 10 cells each, after a line clear (every row
   removed is made up for by one Empty row inserted) and after a restart as
   after any other call. *)
C29_BoardDimensions ==
  /\ DOMAIN grid = 1..20
  /\ \A y \in 1..20 : DOMAIN grid[y] = 1..10

(* a lock that cleared several rows of a board of 20 x 10 cells *)
C29_Witness ==
  /\ last.op \in LockingOps
  /\ lines_cleared >= Before.lines_cleared + 2
  /\ Len(grid) = 20
  /\ \A y \in 1..20 : Len(grid[y]) = 10

(* every cell <<y, x>> of S exists in board g *)
InRange(g, S) ==
  \A c \in S : /\ c[1] >= 0 /\ c[1] < Len(g)
               /\ c[2] >= 0 /\ c[2] < Len(g[c[1] + 1])

(* the piece the last call locked *)
LockedPiece ==
  IF last.op = "hard_drop" THEN LandedPiece ELSE Before.current_piece

(* the pieces the last call handed to is_valid_position, each with the board
   it was tested on: the destination of a move, the turned piece and its
   shifts, the steps down of a drop, and the piece spawned after a lock *)
Tested ==
  IF Before.state # Playing THEN {}
  ELSE CASE last.op = "move_piece" ->
              { [g |-> Before.grid,
                 p |-> Translated(Before.current_piece, last.dx, last.dy)] }
         [] last.op = "rotate_piece" ->
              { [g |-> Before.grid,
                 p |-> Candidate(Before.current_piece, last.clockwise, i)] :
                  i \in DOMAIN RotationOffsets }
         [] last.op \in {"soft_drop", "tick"} ->
              { [g |-> Before.grid, p |-> Translated(Before.current_piece, 0, 1)] }
                \cup (IF Locked THEN { [g |-> grid, p |-> SpawnedPiece] } ELSE {})
         [] last.op = "hard_drop" ->
              { [g |-> Before.grid, p |-> Translated(Before.current_piece, 0, j)] :
                  j \in 1..(DropDepth + 1) }
                \cup { [g |-> grid, p |-> SpawnedPiece] }
         [] OTHER -> {}

(* C30: no call reads or writes a cell that the board does not have: the piece
   of a Playing engine, which is the piece a lock is applied to, has its four
   blocks on the board; every lock wrote cells of the board only, its piece
   having all four blocks in bounds; every cell is_valid_position looked up
   and every cell render_grid wrote exists; and the rows clear_lines goes
   through are the rows of the board. *)
C30_IndicesInRange ==
  /\ state = Playing => PieceInside(current_piece)
  /\ Locked
       => LET piece == LockedPiece
          IN  /\ PieceInside(piece)
              /\ InRange(Before.grid, lock_piece_writes([current_piece |-> piece]))
              /\ Len(Before.grid) = GRID_HEIGHT /\ Len(grid) = GRID_HEIGHT
  /\ \A t \in Tested :
       InRange(t.g, is_valid_position_reads([grid |-> t.g], blocks(t.p), 1))
  /\ last.op = "render_grid" => InRange(grid, render_grid_writes(Self))

(* a piece locked against the right wall by a tick, its cells written *)
C30_Witness ==
  /\ Locked /\ last.op = "tick"
  /\ \E c \in CellsOf(LockedPiece) : c[1] = GRID_WIDTH - 1
  /\ \A c \in CellsOf(LockedPiece) :
       grid[c[2] + 1][c[1] + 1] = LockedPiece.tetromino_type
  /\ grid # Before.grid

(* what a caller can see of an engine *)
VisibleFields ==
  {"grid", "current_piece", "preview_queue", "score", "lines_cleared", "level",
   "state", "events"}

(* C31: two engines constructed with equal sequence providers and with the
   same loaded high score, handed the same calls, agree after every call on
   board, current piece, preview queue, score, lines cleared, level, state,
   pending events and high score, on what move_piece and rotate_piece
   returned and on the events take_events handed out, whatever the
   high-score file of the second engine holds at each of its calls: after
   construction nothing outside the engine and its provider has a part in
   the outcome of a call. *)
C31_Deterministic ==
  /\ \A f \in VisibleFields : twin.engine[f] = Self[f]
  /\ twin.engine.high_score = high_score
  /\ last.op \in {"move_piece", "rotate_piece"} => twin.ok = last.ok
  /\ last.op = "take_events" => twin.taken = last.taken

(* a game ended on a new high score, recorded and saved by both engines, while the
   file of the second engine held a higher score than the one just reached,
   the two engines having been constructed on different files *)
C31_Witness ==
  /\ Spawned /\ state = GameOver /\ Before.state = Playing
  /\ score > Before.high_score /\ high_score = score
  /\ twin.engine.high_score = score /\ twin.engine.hs_file = hs_file
  /\ twin.engine.events = events
  /\ twin.read \in OtherWrites /\ load_high_score(twin.read) > score
  /\ load_high_score(twin.read) # Before.high_score
  /\ piece_provider = twin.engine.piece_provider

(* C32: clear_lines of main.rs returns the count and leaves the board that
   clear_lines of game.rs returns and leaves on the same board, which is the
   board with every complete row taken out and the rows above moved down, for
   every board, boards with two or more complete rows included. *)
C32_MainClearLinesSame ==
  last.op = "main_clear_lines"
    => /\ last.count = clear_lines(Before).ret
       /\ grid = clear_lines(Before).self.grid
       /\ grid = ClearedReference(Before.grid)

(* the gameplay calls of the binary's engine *)
MainGameplayOps ==
  {"main_move_piece", "main_rotate_piece", "main_soft_drop", "main_hard_drop",
   "main_tick"}

(* C33: once the state of the binary's engine is GameOver, move_piece,
   rotate_piece, soft_drop, hard_drop and tick leave the board and the current
   piece as they were. *)
C33_MainStopsAtGameOver ==
  (last.op \in MainGameplayOps /\ Before.state = GameOver)
    => grid = Before.grid /\ current_piece = Before.current_piece

(* ------------------------------------------------------------------ *)
(* What a lock does to the stored cells                               *)
(* ------------------------------------------------------------------ *)

(* Game::total_filled_cells *)
total_filled_cells(self) == FilledCount(self.grid)

(* C34: a lock writes onto Empty cells only: the four cells of the locked
   piece were Empty on the board before the call. The call changes the number
   of filled cells by +4 and -GRID_WIDTH per row it cleared, and the board
   after it is the board before it with the piece written in and the complete
   rows taken out, so a cell that was filled keeps its kind and changes place
   only by moving down with its row. *)
C34_LockWritesEmptyCells ==
  Locked =>
    LET piece == LockedPiece
        cleared == lines_cleared - Before.lines_cleared
    IN  /\ \A c \in CellsOf(piece) : Before.grid[c[2] + 1][c[1] + 1] = Empty
        /\ total_filled_cells(Self) =
              total_filled_cells(Before) + 4 - GRID_WIDTH * cleared
        /\ grid = ClearedReference(WithPiece(Before.grid, piece))

(* a lock that cleared rows on a board holding cells of several kinds *)
C34_Witness ==
  /\ Locked
  /\ lines_cleared - Before.lines_cleared >= 2
  /\ total_filled_cells(Self) > 0
  /\ C34_LockWritesEmptyCells

(* ------------------------------------------------------------------ *)
(* Complete rows                                                      *)
(* ------------------------------------------------------------------ *)

(* the rows of a board with no Empty cell, 0-based *)
CompleteRows(g) == { y \in 0..(GRID_HEIGHT - 1) : row_complete(g, y) }

(* C35: after every call no row of the board is complete. A lock may complete
   rows, and clear_lines, run by the same call, takes them all out before the
   call returns. *)
C35_NoCompleteRow == CompleteRows(grid) = {}

(* a lock that completed two or more rows: the board as lock_piece left it had
   them, the board after the call has none *)
C35_Witness ==
  /\ Locked
  /\ Cardinality(CompleteRows(WithPiece(Before.grid, LockedPiece))) >= 2
  /\ total_filled_cells(Self) > 0
  /\ C35_NoCompleteRow

(* ------------------------------------------------------------------ *)
(* A run of ticks                                                     *)
(* ------------------------------------------------------------------ *)

(* A Playing engine with its piece at any valid place of the empty or of the
   stacked board (pieces whose empty top rows stick out above the board
   included), then handed nothing but ticks. *)
InitFall ==
  \E piece \in RenderPlacements, g \in {EmptyGrid, TerrainGrid} :
    LET s == with_grid(g, piece, GridQueue, GridPieces, -1)
    IN  /\ is_valid_position(s, piece)
        /\ Constructed(s, "with_grid", MaxTicks)

SpecFall == InitFall /\ [][Tick]_vars

(* the ticks made so far in the run *)
TicksMade == MaxTicks - fuel

(* whether a sequence of events holds PieceLocked *)
HasLocked(ev) == \E i \in 1..Len(ev) : ev[i] = EvPieceLocked

(* C36: in a run of ticks from a Playing state, every tick made before the
   piece has locked either locks it (PieceLocked is recorded) or moves it down
   by exactly one cell, recording exactly one PieceMoved and nothing else; and
   the lock has happened once GRID_HEIGHT ticks have been made. *)
C36_TicksLockWithinHeight ==
  /\ (last.op = "tick" /\ ~HasLocked(Before.events)) =>
        \/ /\ HasLocked(events)
           /\ ~PieceFits(Before.grid, Translated(Before.current_piece, 0, 1))
        \/ /\ current_piece = Translated(Before.current_piece, 0, 1)
           /\ events = Append(Before.events, EvPieceMoved)
           /\ Kept(EngineFields \ {"current_piece", "events"})
  /\ TicksMade >= GRID_HEIGHT => HasLocked(events)

(* the longest fall: a flat I in the top row of the empty board moved down 19
   times and locked by the 20th tick *)
C36_Witness ==
  /\ last.op = "tick"
  /\ TicksMade = GRID_HEIGHT
  /\ ~HasLocked(Before.events)
  /\ HasLocked(events)

(* ------------------------------------------------------------------ *)
(* Runs of one call: only ticks, or only hard drops                   *)
(* ------------------------------------------------------------------ *)

(* the provider sequences of the runs: every list of 1 to MaxListLen kinds,
   repeated *)
RunLists == UNION { [1..n -> TetrominoType] : n \in 1..MaxListLen }

(* a fresh engine, or one restarted straight after construction (its pieces
   are then the provider's draws 6 to 10) *)
InitRun ==
  \E pieces \in RunLists, restarted \in BOOLEAN :
    LET s == with_provider(SequencePieceProvider_new(pieces), -1)
    IN  IF restarted
        THEN Constructed(restart(s), "restart", 0)
        ELSE Constructed(s, "with_provider", 0)

(* the caller goes on calling tick, and nothing else, until the game is over;
   in a run, fuel is the parity of the calls made *)
RunTick ==
  /\ state = Playing
  /\ last.op \in {"with_provider", "restart", "tick"}
  /\ Commit(tick(Self))
  /\ last' = [NoCall EXCEPT !.op = "tick"]
  /\ fuel' = 1 - fuel

(* the caller goes on calling hard_drop, and nothing else, until the game is
   over *)
RunHardDrop ==
  /\ state = Playing
  /\ last.op \in {"with_provider", "restart", "hard_drop"}
  /\ Commit(hard_drop(Self))
  /\ last' = [NoCall EXCEPT !.op = "hard_drop"]
  /\ fuel' = 1 - fuel

NextRun ==
  \/ RunTick
  \/ RunHardDrop

(* one more call made on a Playing engine *)
RunCall == state = Playing /\ fuel' = 1 - fuel

(* the caller of a run never stops calling tick or hard_drop while the game
   is on *)
SpecRun == InitRun /\ [][NextRun]_vars /\ WF_fuel(RunCall)

(* the columns 4 to 7, 0-based *)
SpawnColumns == 4..7

FilledOnlyIn(cols) ==
  \A y \in 1..GRID_HEIGHT, x \in 1..GRID_WIDTH :
    grid[y][x] # Empty => (x - 1) \in cols

(* C37: a run of ticks only, or of hard drops only, from a fresh or restarted
   engine reaches GameOver, whatever the provider hands out; all along the run
   no line is cleared and every stored cell lies in columns 4 to 7. *)
C37_RunEndsInGameOver ==
  /\ <>(state = GameOver)
  /\ [](lines_cleared = 0 /\ score = 0 /\ FilledOnlyIn(SpawnColumns))

(* a run of ticks at its end: the game is over, the stack stands in the middle
   columns up to the top *)
C37_Witness ==
  /\ state = GameOver
  /\ last.op = "tick"
  /\ Before.state = Playing
  /\ lines_cleared = 0
  /\ \E x \in SpawnColumns : grid[2][x + 1] # Empty
  /\ \A x \in 1..GRID_WIDTH : (x - 1) \notin SpawnColumns => grid[GRID_HEIGHT][x] = Empty

(* ------------------------------------------------------------------ *)
(* The order in which the provider's draws are played                 *)
(* ------------------------------------------------------------------ *)

(* d(k): what the k-th call of next_piece on the engine's provider returned,
   k = 1 being the first call of with_provider *)
DrawOf(k) == piece_provider.pieces[((k - 1) % Len(piece_provider.pieces)) + 1]

(* the pieces that have been current so far, the present one included: every
   draw of a never restarted engine but the PREVIEW_COUNT in the queue made one *)
PiecesPlayed == piece_provider.index - PREVIEW_COUNT

(* the j-th kind to enter the preview queue *)
QueuedOf(j) == IF j <= PREVIEW_COUNT THEN DrawOf(j) ELSE DrawOf(j + 1)

NeverRestarted == \A i \in 1..Len(events) : events[i] # EvGameRestarted

(* C38: on an engine that was never restarted, the n-th piece to be current
   is d(5) for n = 1, d(n-1) for n = 2..5 and d(n) from n = 6 on; the queue
   holds the next four kinds in the order they entered it, so a kind pushed to
   the back is current four spawns later. *)
C38_PlayOrder ==
  NeverRestarted =>
    LET n == PiecesPlayed
    IN  /\ n >= 1
        /\ current_piece.tetromino_type =
              (IF n = 1 THEN DrawOf(PREVIEW_COUNT + 1)
               ELSE IF n <= PREVIEW_COUNT + 1 THEN DrawOf(n - 1)
               ELSE DrawOf(n))
        /\ preview_queue = [i \in 1..PREVIEW_COUNT |-> QueuedOf(n - 1 + i)]

(* the eighth piece of a never restarted engine whose provider repeats three
   different kinds *)
C38_Witness ==
  /\ NeverRestarted
  /\ PiecesPlayed = 8
  /\ Len(piece_provider.pieces) = 3
  /\ Cardinality({ piece_provider.pieces[i] : i \in 1..3 }) = 3
  /\ current_piece.tetromino_type = DrawOf(8)
  /\ current_piece.tetromino_type # DrawOf(7)

(* ------------------------------------------------------------------ *)
(* The high score                                                     *)
(* ------------------------------------------------------------------ *)

(* C39: the high score never goes down; a call changes it only if it ran a
   spawn that ended the game (restart and every other call leave it as it
   was); and whenever the game is over the high score is at least the score. *)
C39_HighScoreMonotone ==
  /\ high_score >= Before.high_score
  /\ high_score # Before.high_score =>
        Spawned /\ state = GameOver /\ high_score = score
  /\ state = GameOver => high_score >= score

(* a game that ended with a new high score, restarted: the high score is kept
   while the score is back to 0 *)
C39_Witness ==
  /\ last.op = "restart"
  /\ Before.state = GameOver
  /\ Before.score > 0
  /\ Before.high_score = Before.score
  /\ high_score = Before.high_score
  /\ score = 0

(* ------------------------------------------------------------------ *)
(* How a game ends                                                    *)
(* ------------------------------------------------------------------ *)

(* C40 as stated: a piece of any kind created at the spawn place in rotation
   0 has its four blocks inside the board, and the state becomes GameOver only
   in a soft_drop, hard_drop or tick made while Playing that locked a piece,
   the spawned piece lying on a stored cell. *)
C40_GameOverOnlyByOverlap ==
  /\ \A t \in TetrominoType : PieceInside(Tetromino_new(t))
  /\ (state = GameOver /\ Before.state # GameOver) =>
        /\ Locked
        /\ current_piece = Tetromino_new(Before.preview_queue[1])
        /\ PieceInside(current_piece)
        /\ \E c \in CellsOf(current_piece) : grid[c[2] + 1][c[1] + 1] # Empty

(* C40, amended: a piece of any kind created at the spawn place in rotation 0
   has its four blocks inside the board. The state becomes GameOver only in a
   call that ran a spawn: a soft_drop, hard_drop or tick made while Playing
   that locked a piece, or spawn_next_piece called directly, in any state but
   GameOver; the piece spawned from the front of the queue then lies inside
   the board on at least one stored cell. No move, rotation, pause, restart
   or drain ends the game. *)
C40_GameOverOnlyBySpawn ==
  /\ \A t \in TetrominoType : PieceInside(Tetromino_new(t))
  /\ (state = GameOver /\ Before.state # GameOver) =>
        /\ Spawned
        /\ current_piece = Tetromino_new(Before.preview_queue[1])
        /\ PieceInside(current_piece)
        /\ \E c \in CellsOf(current_piece) : grid[c[2] + 1][c[1] + 1] # Empty

(* spawn_next_piece called directly on a Playing engine whose piece was still
   in the air, ending the game *)
C40_Witness ==
  /\ state = GameOver
  /\ Before.state = Playing
  /\ last.op = "spawn_next_piece"
  /\ PieceFits(Before.grid, Before.current_piece)
  /\ PieceInside(current_piece)
  /\ ~PieceFits(grid, current_piece)

============================================================================
